---- MODULE Spec2Model ----
(***************************************************************************)
(* Social validation of traffic incidents (traffic-service) and the event  *)
(* it publishes when an incident is verified.                              *)
(*                                                                         *)
(* The store is the relational database behind the SQLAlchemy session of   *)
(* each request: a request reads committed rows into its own session,      *)
(* changes its loaded objects in memory, and db.commit() flushes the       *)
(* pending INSERT and the UPDATE of the changed columns in one             *)
(* transaction.  validar_reporte takes no row lock (no with_for_update),   *)
(* so requests interleave between their statements: between workers at     *)
(* every statement, and inside one worker at the await of publish_event,   *)
(* which comes before db.commit().                                         *)
(*                                                                         *)
(* The gamification service consumes the queue gamification.reports and    *)
(* keeps XP, coins, badges and the leaderboard in a key-value store; its   *)
(* handler runs one store command after the other, each of which may fail. *)
(* SpecGam is the consumer with the broker's routing, SpecLectura adds the  *)
(* leaderboard read.                                                       *)
(***************************************************************************)
EXTENDS Integers, Sequences, FiniteSets, Bags, TLC

\* ---------------------------------------------------------------- bounds
MaxUsuario == 5
MaxIncidentes == 1
MaxReq == 2
MaxLlamadas == 4
\* gamification: users with counters, messages published, messages waiting
\* in the queue
MaxJugador == 2
MaxEventos == 2
MaxCola == 1
\* the publisher: publish_event calls made, calls in flight at once
MaxMensajes == 2
MaxPub == 2
\* the highest level a user may have when the service starts
MaxNivel == 4

Usuarios == 1..MaxUsuario
Reportes == 1..MaxIncidentes
Jugadores == 1..MaxJugador

\* ------------------------------------------------------------- constants
UMBRAL_VERIFICACION == 3
PUNTOS_VERIFICADO == 50
PUNTOS_CREADO == 10

PENDIENTE == "pendiente"
VALIDADO == "validado"
VERIFICADO == "verificado"
ARCHIVADO == "archivado"
EstadoIncidenteEnum == {PENDIENTE, VALIDADO, VERIFICADO, ARCHIVADO}

SeveridadEnum == {"baja", "media", "alta", "critica"}
SEVERIDAD_DEFAULT == "media"
\* answers of the severity oracle the model draws from (any other outcome of
\* the call is a failure)
RespuestasOraculo == {"alta"}
Tipos == {"choque"}
\* the ways the call to the oracle fails: the three httpx exceptions, and
\* anything else (an answer that is not a ClasificacionSeveridadResponse)
OraculoFallos == {"TimeoutException", "HTTPStatusError", "RequestError", "Exception"}
\* users that report incidents
Creadores == {1}

NULL == [nulo |-> TRUE]

\* ---------------------------------------------- gamification constants
XP_PER_VALID_REPORT == 10
COINS_PER_VALID_REPORT == 5

\* (the badge names are written without their accents)
BADGE_THRESHOLDS ==
    << [threshold |-> 100,  badge_name |-> "Explorador Urbano"],
       [threshold |-> 250,  badge_name |-> "Guardian de la Ciudad"],
       [threshold |-> 500,  badge_name |-> "Heroe del Trafico"],
       [threshold |-> 1000, badge_name |-> "Leyenda Urbana"] >>

\* exchange the traffic publisher declares and publishes to
EXCHANGE_NAME_PRODUCER == "urban_drive_events"
\* exchange, queue and bindings the gamification consumer declares
EXCHANGE_NAME == "traffic.events"
QUEUE_NAME == "gamification.reports"
ROUTING_KEYS == {"reporte_creado", "reporte_validado"}

\* GET /leaderboard: default limit and the largest limit taken as given
LIMIT_DEFAULT == 10
LIMIT_MAX == 100

\* The counters a user may hold when the service starts (the store outlives
\* the service): none; 9 rewards; 24 rewards with every badge check lost to a
\* failed store command, so that the next check finds two thresholds crossed.
EstadosPrevios ==
    { [xp |-> 0,   coins |-> 0,   badges |-> {}],
      [xp |-> 90,  coins |-> 45,  badges |-> {}],
      [xp |-> 240, coins |-> 120, badges |-> {}] }

VARIABLES
    incidentes_trafico,       \* table: sequence of rows, id = position
    validaciones_incidentes,  \* table: bag of rows [incidente_id, usuario_id]
    req,                      \* bag of the validar_reporte calls in flight
    ultima_respuesta,         \* the last response validar_reporte sent
    llamadas,                 \* number of validar_reporte calls received
    exchange,                 \* bag of messages the exchange has accepted
    is_connected,             \* RabbitMQProducer._is_connected
    ultima_creacion,          \* the last POST /reportar: oracle outcome, answer
    alta                      \* the POST /reportar call between commit and publish

\* the gamification service, its queue and its counter store
VARIABLES
    cola,            \* queue gamification.reports: bodies waiting, in order
    xp,              \* user:{id}:xp
    coins,           \* user:{id}:coins
    badges,          \* user:{id}:badges
    leaderboard,     \* sorted set leaderboard:xp: member -> score
    consumo,         \* the _on_message call in progress
    ultimo,          \* the last message handled, and how it was settled
    publicados,      \* number of messages published so far
    inicio,          \* the counter store when the service started
    ultima_lectura,  \* the last answer of GET /leaderboard
    ultimo_perfil,   \* the last answer of GET /profile/{user_id}
    replica          \* the _on_message call in progress in a second instance

vars_trafico == <<incidentes_trafico, validaciones_incidentes, req,
                  ultima_respuesta, llamadas, exchange, is_connected,
                  ultima_creacion, alta>>

vars_gam == <<cola, xp, coins, badges, leaderboard, consumo, ultimo, publicados,
              inicio, ultima_lectura, ultimo_perfil, replica>>

\* the event publisher of the traffic service (RabbitMQProducer) in detail
VARIABLES
    producer_instance,  \* _producer_instance is not None
    pub,                \* bag of the get_producer / publish_event calls in flight
    lock,               \* self._lock.locked()
    connection,         \* self._connection: "None", "abierta" or "cerrada"
    reconnect_task,     \* self._reconnect_task and the delay of its loop
    broker,             \* the broker accepts connections and messages
    retornos,           \* per message, what its publish_event call returned
    mensajes,           \* number of publish_event calls made
    cierre,             \* where close_producer() is: "no" before it is called
    bucles              \* number of _reconnect_loop tasks created and not finished

vars_pub == <<producer_instance, pub, lock, connection, reconnect_task, broker,
              retornos, mensajes, cierre, bucles>>

vars == <<vars_trafico, vars_gam, vars_pub>>

\* the counter store holding estados[u] for user u, the service idle
AlmacenInicial(estados) ==
    /\ cola = <<>>
    /\ xp = [u \in Jugadores |-> estados[u].xp]
    /\ coins = [u \in Jugadores |-> estados[u].coins]
    /\ badges = [u \in Jugadores |-> estados[u].badges]
    /\ leaderboard = [u \in {v \in Jugadores : estados[v].xp > 0} |-> estados[u].xp]
    /\ consumo = NULL
    /\ ultimo = NULL
    /\ publicados = 0
    /\ inicio = estados
    /\ ultima_lectura = NULL
    /\ ultimo_perfil = NULL
    /\ replica = NULL

\* RabbitMQProducer.__init__, no singleton yet; no publish_event call made
PublicadorInicial ==
    /\ producer_instance = FALSE
    /\ pub = EmptyBag
    /\ lock = FALSE
    /\ connection = "None"
    /\ reconnect_task = NULL
    /\ broker = TRUE
    /\ retornos = [n \in 1..MaxMensajes |-> NULL]
    /\ mensajes = 0
    /\ cierre = "no"
    /\ bucles = 0

InitTrafico ==
    /\ PublicadorInicial
    /\ incidentes_trafico = <<>>
    /\ validaciones_incidentes = EmptyBag
    /\ req = EmptyBag
    /\ ultima_respuesta = NULL
    /\ llamadas = 0
    /\ exchange = EmptyBag
    /\ is_connected = FALSE
    /\ ultima_creacion = NULL
    /\ alta = NULL

Init ==
    /\ InitTrafico
    /\ AlmacenInicial([u \in Jugadores |-> [xp |-> 0, coins |-> 0, badges |-> {}]])

\* ------------------------------------------------------- event publisher
\* publish_event(msg), returning `entregado`: ensure_connected (connect when
\* disconnected), then hand the message to the exchange.  Both need the broker
\* to be reachable at that moment; any failure is caught inside publish_event,
\* marks the publisher disconnected and makes the call return False.
publish_event(msg, entregado) ==
    /\ exchange' = IF entregado THEN exchange (+) SetToBag({msg}) ELSE exchange
    /\ is_connected' = entregado

\* the connection is closed unexpectedly: its close callback
on_connection_closed ==
    /\ is_connected
    /\ is_connected' = FALSE
    /\ UNCHANGED <<incidentes_trafico, validaciones_incidentes, req,
                   ultima_respuesta, llamadas, exchange, ultima_creacion, alta>>
    /\ UNCHANGED <<vars_gam, vars_pub>>

\* ------------------------------------------------------ severity oracle
\* (variant: a failure of the call is passed on instead of the default)
clasificar_severidad_sin_default(respuesta) == respuesta

\* clasificar_severidad: the oracle's answer, or the default on any failure
clasificar_severidad(respuesta) ==
    IF respuesta \in SeveridadEnum THEN respuesta ELSE SEVERIDAD_DEFAULT

\* ---------------------------------------------------- incident creation
EventoCreado(id, usuario_id, tipo, severidad) ==
    [event_type |-> "reporte_creado", user_id |-> usuario_id,
     puntos_base |-> PUNTOS_CREADO, incidente_id |-> id,
     tipo_incidente |-> tipo, severidad |-> severidad]

NuevoIncidente(id, usuario_id, tipo, severidad) ==
    [id |-> id, tipo |-> tipo, severidad |-> severidad, estado |-> PENDIENTE,
     usuario_id |-> usuario_id, validaciones_count |-> 0]

reportar_incidente(usuario_id, tipo, respuesta) ==
    /\ Len(incidentes_trafico) < MaxIncidentes
    /\ \E entregado \in BOOLEAN :
         LET id == Len(incidentes_trafico) + 1
             severidad == clasificar_severidad(respuesta)
         IN
         /\ incidentes_trafico' =
                Append(incidentes_trafico, NuevoIncidente(id, usuario_id, tipo, severidad))
         /\ publish_event(EventoCreado(id, usuario_id, tipo, severidad), entregado)
         /\ ultima_creacion' =
                [respuesta |-> respuesta,
                 cuerpo |-> [status |-> 201,
                             incidente |-> NuevoIncidente(id, usuario_id, tipo, severidad)]]
    /\ UNCHANGED <<validaciones_incidentes, req, ultima_respuesta, llamadas, alta>>
    /\ UNCHANGED <<vars_gam, vars_pub>>

\* ------------------------------------------------------- validar_reporte
HTTP_404 == [status |-> 404, detail |-> "no encontrado"]
HTTP_400_PROPIO == [status |-> 400, detail |-> "No puedes validar tu propio reporte"]
HTTP_400_DUPLICADO == [status |-> 400, detail |-> "Ya has validado este reporte anteriormente"]
\* (variant: the refusal of the INSERT answered as a duplicate validation)
HTTP_500_como_duplicado ==
    [status |-> 400, detail |-> "Ya has validado este reporte anteriormente"]

\* "except Exception": rollback and 500
HTTP_500 == [status |-> 500, detail |-> "Error al validar el reporte"]

\* (variant: the flag is left at its default False)
ValidacionResponse_sin_bandera(incidente, usuario_id, verificado) ==
    [status |-> 200, incidente_id |-> incidente.id, usuario_id |-> usuario_id,
     validaciones_count |-> incidente.validaciones_count,
     estado |-> incidente.estado, verificado |-> FALSE]

ValidacionResponse(incidente, usuario_id, verificado) ==
    [status |-> 200, incidente_id |-> incidente.id, usuario_id |-> usuario_id,
     validaciones_count |-> incidente.validaciones_count,
     estado |-> incidente.estado, verificado |-> verificado]

\* the response of call c goes out
Respuesta(c, cuerpo) ==
    [reporte_id |-> c.reporte_id, usuario_id |-> c.usuario_id, cuerpo |-> cuerpo]

\* call c leaves the handler / moves on to its next statement
Sale(c) == req (-) SetToBag({c})
Sigue(c, d) == (req (-) SetToBag({c})) (+) SetToBag({d})

\* db.query(Incidente).filter(Incidente.id == reporte_id).first()
BuscarIncidente(reporte_id) ==
    IF reporte_id \in DOMAIN incidentes_trafico
    THEN incidentes_trafico[reporte_id] ELSE NULL

\* (variant: the self-validation rule left out)
EsCreador_omitido(incidente, usuario_id) == FALSE

\* incidente.usuario_id == validacion.usuario_id
EsCreador(incidente, usuario_id) == incidente.usuario_id = usuario_id

ValidacionIncidente(reporte_id, usuario_id) ==
    [incidente_id |-> reporte_id, usuario_id |-> usuario_id]

\* (variant: the already-verified return comes before the duplicate query)
validacion_existente_tras_verificado(reporte_id, usuario_id) ==
    /\ BagIn(ValidacionIncidente(reporte_id, usuario_id), validaciones_incidentes)
    /\ incidentes_trafico[reporte_id].estado # VERIFICADO

\* db.query(ValidacionIncidente).filter(...).first() is not None
validacion_existente(reporte_id, usuario_id) ==
    BagIn(ValidacionIncidente(reporte_id, usuario_id), validaciones_incidentes)

\* (variant: the already-verified return left out)
YaVerificado_omitido(incidente) == FALSE

\* incidente.estado == EstadoIncidenteEnum.VERIFICADO
YaVerificado(incidente) == incidente.estado = VERIFICADO

\* (variants: the threshold off by one, either way)
LlegaAVerificado_antes(validaciones_count) ==
    validaciones_count >= UMBRAL_VERIFICACION - 1

LlegaAVerificado_despues(validaciones_count) ==
    validaciones_count > UMBRAL_VERIFICACION

\* incidente.validaciones_count >= 3
LlegaAVerificado(validaciones_count) == validaciones_count >= UMBRAL_VERIFICACION

\* the loaded object after "validaciones_count += 1" and the threshold test
IncidenteValidado(incidente) ==
    LET n == incidente.validaciones_count + 1 IN
    [incidente EXCEPT !.validaciones_count = n,
                      !.estado = IF LlegaAVerificado(n) THEN VERIFICADO ELSE @]

\* (variant: the event credited to the default points of publish_event)
EventoVerificado_puntos_default(incidente) ==
    [event_type |-> "reporte_verificado", user_id |-> incidente.usuario_id,
     puntos_base |-> PUNTOS_CREADO, incidente_id |-> incidente.id,
     validaciones_count |-> incidente.validaciones_count,
     tipo_incidente |-> incidente.tipo, severidad |-> incidente.severidad]

\* the keyword arguments of publish_event in validar_reporte
EventoVerificado(incidente) ==
    [event_type |-> "reporte_verificado", user_id |-> incidente.usuario_id,
     puntos_base |-> PUNTOS_VERIFICADO, incidente_id |-> incidente.id,
     validaciones_count |-> incidente.validaciones_count,
     tipo_incidente |-> incidente.tipo, severidad |-> incidente.severidad]

\* The users a call may come from: users are interchangeable until the store
\* or a call in flight names them, so a caller is a user already named there
\* or the first user not yet named.
Conocidos ==
    Creadores \cup {f.usuario_id : f \in BagToSet(validaciones_incidentes)}
              \cup {c.usuario_id : c \in BagToSet(req)}

Llamantes ==
    {u \in Usuarios : u \in Conocidos \/ \A v \in Usuarios \ Conocidos : u <= v}

\* a call arrives; first statement: load the incident, 404, and the
\* self-validation rule
validar_reporte(reporte_id, usuario_id) ==
    /\ BagCardinality(req) < MaxReq
    /\ llamadas < MaxLlamadas
    /\ llamadas' = llamadas + 1
    /\ LET incidente == BuscarIncidente(reporte_id)
           c == [reporte_id |-> reporte_id, usuario_id |-> usuario_id]
       IN  IF incidente = NULL
           THEN /\ ultima_respuesta' = Respuesta(c, HTTP_404)
                /\ UNCHANGED req
           ELSE IF EsCreador(incidente, usuario_id)
           THEN /\ ultima_respuesta' = Respuesta(c, HTTP_400_PROPIO)
                /\ UNCHANGED req
           ELSE /\ req' = req (+) SetToBag({[pc |-> "comprobar",
                                            reporte_id |-> reporte_id,
                                            usuario_id |-> usuario_id,
                                            incidente |-> incidente]})
                /\ UNCHANGED ultima_respuesta
    /\ UNCHANGED <<incidentes_trafico, validaciones_incidentes, exchange,
                   is_connected, ultima_creacion, alta>>
    /\ UNCHANGED <<vars_gam, vars_pub>>

\* second statement: the duplicate query, the already-verified return, and
\* the in-memory changes (pending INSERT, counter, state)
validar_comprobar(c) ==
    /\ c.pc = "comprobar"
    /\ LET nuevo == IncidenteValidado(c.incidente)
           verificado == LlegaAVerificado(nuevo.validaciones_count)
       IN  IF validacion_existente(c.reporte_id, c.usuario_id)
           THEN /\ req' = Sale(c)
                /\ ultima_respuesta' = Respuesta(c, HTTP_400_DUPLICADO)
           ELSE IF YaVerificado(c.incidente)
           THEN /\ req' = Sale(c)
                /\ ultima_respuesta' =
                       Respuesta(c, ValidacionResponse(c.incidente, c.usuario_id, TRUE))
           ELSE /\ req' = Sigue(c, [pc |-> IF verificado THEN "publicar" ELSE "commit",
                                    reporte_id |-> c.reporte_id,
                                    usuario_id |-> c.usuario_id,
                                    incidente |-> nuevo, verificado |-> verificado,
                                    publicado |-> "no"])
                /\ UNCHANGED ultima_respuesta
    /\ UNCHANGED <<incidentes_trafico, validaciones_incidentes, llamadas, exchange,
                   is_connected, ultima_creacion, alta>>
    /\ UNCHANGED <<vars_gam, vars_pub>>

\* (variant: a publication that fails ends the request)
TrasPublicar_propaga(entregado) == IF entregado THEN "commit" ELSE "abortado"

\* where the call goes on after publish_event: its result is not looked at,
\* and the try around it only logs
TrasPublicar(entregado) == "commit"

\* await producer.publish_event(...) of the verifying call, before the commit
validar_publicar(c) ==
    /\ c.pc = "publicar"
    /\ \E entregado \in BOOLEAN :
         /\ publish_event(EventoVerificado(c.incidente), entregado)
         /\ req' = Sigue(c, [c EXCEPT !.pc = TrasPublicar(entregado),
                                      !.publicado = IF entregado THEN "si" ELSE "fallo"])
    /\ UNCHANGED <<incidentes_trafico, validaciones_incidentes, ultima_respuesta,
                   llamadas, ultima_creacion, alta>>
    /\ UNCHANGED <<vars_gam, vars_pub>>

\* (variant: the table declared without the constraint)
uq_validacion_sin_constraint(fila) == FALSE

\* UniqueConstraint('incidente_id', 'usuario_id'): the INSERT is refused
uq_validacion_usuario_incidente(fila) == BagIn(fila, validaciones_incidentes)

\* (variant: the UPDATE writes every column of the loaded object)
FlushUpdate_todas_las_columnas(fila, incidente, verificado) ==
    [fila EXCEPT !.validaciones_count = incidente.validaciones_count,
                 !.estado = incidente.estado]

\* (variant: the INSERT is committed without the UPDATE of the incident)
FlushUpdate_sin_update(fila, incidente, verificado) == fila

\* the UPDATE of the flush: only the columns the session changed
FlushUpdate(fila, incidente, verificado) ==
    [fila EXCEPT !.validaciones_count = incidente.validaciones_count,
                 !.estado = IF verificado THEN incidente.estado ELSE @]

\* db.commit(); db.refresh(incidente); return  --  or rollback and 500
validar_commit(c) ==
    /\ c.pc = "commit"
    /\ LET id == c.reporte_id
           fila == ValidacionIncidente(id, c.usuario_id)
           guardado == FlushUpdate(incidentes_trafico[id], c.incidente, c.verificado)
       IN  IF uq_validacion_usuario_incidente(fila)
           THEN /\ ultima_respuesta' = Respuesta(c, HTTP_500)
                /\ UNCHANGED <<incidentes_trafico, validaciones_incidentes>>
           ELSE /\ validaciones_incidentes' =
                       validaciones_incidentes (+) SetToBag({fila})
                /\ incidentes_trafico' = [incidentes_trafico EXCEPT ![id] = guardado]
                /\ ultima_respuesta' =
                       Respuesta(c, ValidacionResponse(guardado, c.usuario_id,
                                                       c.verificado))
    /\ req' = Sale(c)
    /\ UNCHANGED <<llamadas, exchange, is_connected, ultima_creacion, alta>>
    /\ UNCHANGED <<vars_gam, vars_pub>>

Next ==
    \/ \E u \in Creadores, t \in Tipos, o \in RespuestasOraculo :
          reportar_incidente(u, t, o)
    \/ \E i \in Reportes, u \in Llamantes : validar_reporte(i, u)
    \/ \E c \in BagToSet(req) : validar_comprobar(c)
    \/ \E c \in BagToSet(req) : validar_publicar(c)
    \/ \E c \in BagToSet(req) : validar_commit(c)
    \/ on_connection_closed

Spec == Init /\ [][Next]_vars

\* Calls one after the other: a call arrives only when none is in flight.
NextSeq ==
    \/ \E u \in Creadores, t \in Tipos, o \in RespuestasOraculo :
          reportar_incidente(u, t, o)
    \/ \E i \in Reportes, u \in Llamantes :
          req = EmptyBag /\ validar_reporte(i, u)
    \/ \E c \in BagToSet(req) : validar_comprobar(c)
    \/ \E c \in BagToSet(req) : validar_publicar(c)
    \/ \E c \in BagToSet(req) : validar_commit(c)
    \/ on_connection_closed

SpecSeq == Init /\ [][NextSeq]_vars

\* Incident creation with every outcome of the call to the oracle: an answer
\* with any of the severities, or any of the failures.
NextCrear ==
    \/ \E u \in Creadores, t \in Tipos, o \in SeveridadEnum \cup OraculoFallos :
          reportar_incidente(u, t, o)
    \/ \E i \in Reportes, u \in Llamantes :
          req = EmptyBag /\ validar_reporte(i, u)
    \/ \E c \in BagToSet(req) : validar_comprobar(c)
    \/ \E c \in BagToSet(req) : validar_publicar(c)
    \/ \E c \in BagToSet(req) : validar_commit(c)

SpecCrear == Init /\ [][NextCrear]_vars

\* ------------------------------------- incident creation, step by step
\* reportar_incidente with its two awaits apart: db.commit() (which may fail:
\* rollback and 500) and, after it, the publication of 'reporte_creado'.
\* Validations of the new incident run in between.

\* (variant: the event is published whether or not the commit succeeded)
TrasCommit_publica_siempre(falla) == "publicar"

\* where reportar_incidente goes on after db.commit(): an exception of the
\* commit leaves the outer try
TrasCommit(falla) == IF falla THEN "500" ELSE "publicar"

\* clasificar_severidad, Incidente(...), db.add, db.commit, db.refresh
reportar_commit(usuario_id, tipo, respuesta) ==
    /\ alta = NULL
    /\ Len(incidentes_trafico) < MaxIncidentes
    /\ \E falla \in BOOLEAN :
         LET id == Len(incidentes_trafico) + 1
             severidad == clasificar_severidad(respuesta)
             nuevo == NuevoIncidente(id, usuario_id, tipo, severidad)
         IN
         /\ incidentes_trafico' =
                IF falla THEN incidentes_trafico ELSE Append(incidentes_trafico, nuevo)
         /\ IF TrasCommit(falla) = "publicar"
            THEN /\ alta' = [respuesta |-> respuesta, incidente |-> nuevo]
                 /\ UNCHANGED ultima_creacion
            ELSE /\ ultima_creacion' =
                        [respuesta |-> respuesta, cuerpo |-> [status |-> 500]]
                 /\ UNCHANGED alta
    /\ UNCHANGED <<validaciones_incidentes, req, ultima_respuesta, llamadas,
                   exchange, is_connected>>
    /\ UNCHANGED <<vars_gam, vars_pub>>

\* the try around get_producer / publish_event, then return db_incidente
reportar_publicar ==
    /\ alta # NULL
    /\ \E entregado \in BOOLEAN :
         /\ publish_event(EventoCreado(alta.incidente.id, alta.incidente.usuario_id,
                                       alta.incidente.tipo, alta.incidente.severidad),
                          entregado)
         /\ ultima_creacion' =
                [respuesta |-> alta.respuesta, entregado |-> entregado,
                 cuerpo |-> [status |-> 201, incidente |-> alta.incidente]]
    /\ alta' = NULL
    /\ UNCHANGED <<incidentes_trafico, validaciones_incidentes, req,
                   ultima_respuesta, llamadas>>
    /\ UNCHANGED <<vars_gam, vars_pub>>

NextAlta ==
    \/ \E u \in Creadores, t \in Tipos, o \in RespuestasOraculo :
          reportar_commit(u, t, o)
    \/ reportar_publicar
    \/ \E i \in Reportes, u \in Llamantes :
          req = EmptyBag /\ validar_reporte(i, u)
    \/ \E c \in BagToSet(req) : validar_comprobar(c)
    \/ \E c \in BagToSet(req) : validar_publicar(c)
    \/ \E c \in BagToSet(req) : validar_commit(c)
    \/ on_connection_closed

SpecAlta == Init /\ [][NextAlta]_vars

\* ================================================ the publisher, in detail
\* RabbitMQProducer with its lock, its connection and its reconnection loop.
\* A call is suspended at its awaits: the lock, _connect, exchange.publish;
\* the loop at its sleep and at its _connect.  The broker goes down and comes
\* back at any moment; connecting succeeds when it is up, publishing when it
\* is up and the connection is open.

\* delay = 2, max_delay = 60 in _reconnect_loop
DELAY_INICIAL == 2
MAX_DELAY == 60

\* the event of the n-th publish_event call
Mensaje(n) == EventoCreado(n, 1, "choque", SEVERIDAD_DEFAULT)

Llamada(op, pc, n) == [op |-> op, pc |-> pc, msg |-> n]

\* not self._is_connected or self._connection.is_closed
DebeConectar == ~is_connected \/ connection = "cerrada"

\* (variant: an exception of publish_event reaches its caller)
Retorno_sin_except(fallo) ==
    [valor |-> IF fallo = "None" THEN "True" ELSE "raise", fallo |-> fallo]

\* what publish_event returns: True after exchange.publish, False from its
\* except Exception, whichever await failed
Retorno(fallo) ==
    [valor |-> IF fallo = "None" THEN "True" ELSE "False", fallo |-> fallo]

\* (variant: a call whose publish failed is kept and tried again)
TerminaLlamada_reintenta(c, fallo) ==
    /\ pub' = IF fallo = "publish"
              THEN (pub (-) SetToBag({c})) (+) SetToBag({[c EXCEPT !.pc = "lock"]})
              ELSE pub (-) SetToBag({c})
    /\ retornos' = IF c.op = "publish_event"
                   THEN [retornos EXCEPT ![c.msg] = Retorno(fallo)]
                   ELSE retornos

\* call c is over: the lock is as `cerrojo`, publish_event has returned
TerminaLlamada(c, fallo) ==
    /\ pub' = pub (-) SetToBag({c})
    /\ retornos' = IF c.op = "publish_event"
                   THEN [retornos EXCEPT ![c.msg] = Retorno(fallo)]
                   ELSE retornos

\* ensure_connected returned to call c without an exception
Conectada(c) ==
    IF c.op = "publish_event"
    THEN /\ pub' = (pub (-) SetToBag({c})) (+) SetToBag({[c EXCEPT !.pc = "publish"]})
         /\ UNCHANGED retornos
    ELSE /\ pub' = pub (-) SetToBag({c})
         /\ UNCHANGED retornos

\* "async with self._lock" once the lock is free, and the test under it
BajoElLock(c) ==
    IF DebeConectar
    THEN /\ lock' = TRUE
         /\ pub' = (pub (-) SetToBag({c})) (+) SetToBag({[c EXCEPT !.pc = "connect"]})
         /\ UNCHANGED retornos
    ELSE /\ UNCHANGED lock
         /\ Conectada(c)

\* a call enters ensure_connected
Entra(c) ==
    IF lock
    THEN /\ pub' = pub (+) SetToBag({[c EXCEPT !.pc = "lock"]})
         /\ UNCHANGED <<lock, retornos>>
    ELSE IF DebeConectar
    THEN /\ lock' = TRUE
         /\ pub' = pub (+) SetToBag({[c EXCEPT !.pc = "connect"]})
         /\ UNCHANGED retornos
    ELSE /\ UNCHANGED lock
         /\ IF c.op = "publish_event"
            THEN pub' = pub (+) SetToBag({[c EXCEPT !.pc = "publish"]})
            ELSE UNCHANGED pub
         /\ UNCHANGED retornos

\* get_producer() while there is no singleton: it is created and connected
get_producer ==
    /\ ~producer_instance
    /\ BagCardinality(pub) < MaxPub
    /\ producer_instance' = TRUE
    /\ Entra(Llamada("get_producer", "entra", 0))
    /\ UNCHANGED <<connection, reconnect_task, broker, mensajes>>
    /\ UNCHANGED <<incidentes_trafico, validaciones_incidentes, req,
                   ultima_respuesta, llamadas, exchange, is_connected,
                   ultima_creacion, alta>>
    /\ UNCHANGED <<vars_gam, cierre, bucles>>

\* producer = await get_producer(); await producer.publish_event(...), up to
\* the first await that suspends
publish_event_llamada ==
    /\ producer_instance
    /\ mensajes < MaxMensajes
    /\ BagCardinality(pub) < MaxPub
    /\ mensajes' = mensajes + 1
    /\ Entra(Llamada("publish_event", "entra", mensajes + 1))
    /\ UNCHANGED <<producer_instance, connection, reconnect_task, broker>>
    /\ UNCHANGED <<incidentes_trafico, validaciones_incidentes, req,
                   ultima_respuesta, llamadas, exchange, is_connected,
                   ultima_creacion, alta>>
    /\ UNCHANGED <<vars_gam, cierre, bucles>>

\* a call that waited for the lock gets it
ensure_connected(c) ==
    /\ c.pc = "lock"
    /\ ~lock
    /\ BajoElLock(c)
    /\ UNCHANGED <<producer_instance, connection, reconnect_task, broker, mensajes>>
    /\ UNCHANGED <<incidentes_trafico, validaciones_incidentes, req,
                   ultima_respuesta, llamadas, exchange, is_connected,
                   ultima_creacion, alta>>
    /\ UNCHANGED <<vars_gam, cierre, bucles>>

\* the _connect of ensure_connected ends; the lock is released either way
ensure_connected_connect(c) ==
    /\ c.pc = "connect"
    /\ lock' = FALSE
    /\ IF broker
       THEN /\ connection' = "abierta"
            /\ is_connected' = TRUE
            /\ Conectada(c)
       ELSE /\ is_connected' = FALSE
            /\ TerminaLlamada(c, "connect")
            /\ UNCHANGED connection
    /\ UNCHANGED <<producer_instance, reconnect_task, broker, mensajes>>
    /\ UNCHANGED <<incidentes_trafico, validaciones_incidentes, req,
                   ultima_respuesta, llamadas, exchange, ultima_creacion, alta>>
    /\ UNCHANGED <<vars_gam, cierre, bucles>>

\* await self._exchange.publish(message, routing_key) ends
exchange_publish(c) ==
    /\ c.pc = "publish"
    /\ IF broker /\ connection = "abierta"
       THEN /\ exchange' = exchange (+) SetToBag({Mensaje(c.msg)})
            /\ TerminaLlamada(c, "None")
            /\ UNCHANGED is_connected
       ELSE /\ is_connected' = FALSE
            /\ TerminaLlamada(c, "publish")
            /\ UNCHANGED exchange
    /\ UNCHANGED <<producer_instance, lock, connection, reconnect_task, broker,
                   mensajes>>
    /\ UNCHANGED <<incidentes_trafico, validaciones_incidentes, req,
                   ultima_respuesta, llamadas, ultima_creacion, alta>>
    /\ UNCHANGED <<vars_gam, cierre, bucles>>

\* (variant: the callback starts a loop whatever the task it holds)
SinTarea_sin_comprobar == TRUE

\* self._reconnect_task is None or self._reconnect_task.done()
SinTarea == reconnect_task = NULL \/ reconnect_task.pc = "done"

\* the open connection is closed unexpectedly: _on_connection_closed
cierre_inesperado ==
    /\ connection = "abierta"
    /\ connection' = "cerrada"
    /\ is_connected' = FALSE
    /\ reconnect_task' = IF SinTarea THEN [pc |-> "creada"] ELSE reconnect_task
    /\ bucles' = IF SinTarea THEN bucles + 1 ELSE bucles
    /\ UNCHANGED <<producer_instance, pub, lock, broker, retornos, mensajes>>
    /\ UNCHANGED <<incidentes_trafico, validaciones_incidentes, req,
                   ultima_respuesta, llamadas, exchange, ultima_creacion, alta>>
    /\ UNCHANGED <<vars_gam, cierre>>

\* (variant: the loop gives up once the delay has reached its maximum)
while_not_connected_con_limite(conectado, delay) ==
    ~conectado /\ delay < MAX_DELAY

\* while not self._is_connected
while_not_connected(conectado, delay) == ~conectado

\* (variant: the delay grows by its first value)
Backoff_lineal(delay) ==
    IF delay + DELAY_INICIAL < MAX_DELAY THEN delay + DELAY_INICIAL ELSE MAX_DELAY

\* delay = min(delay * 2, max_delay)
Backoff(delay) == IF delay * 2 < MAX_DELAY THEN delay * 2 ELSE MAX_DELAY

\* the task starts to run: the first test of the loop, the first sleep
reconnect_loop ==
    /\ reconnect_task # NULL /\ reconnect_task.pc = "creada"
    /\ reconnect_task' = IF while_not_connected(is_connected, DELAY_INICIAL)
                         THEN [pc |-> "sleep", delay |-> DELAY_INICIAL]
                         ELSE [pc |-> "done"]
    /\ bucles' = IF reconnect_task'.pc = "done" THEN bucles - 1 ELSE bucles
    /\ UNCHANGED <<producer_instance, pub, lock, connection, broker, retornos,
                   mensajes>>
    /\ UNCHANGED vars_trafico
    /\ UNCHANGED <<vars_gam, cierre>>

\* asyncio.sleep(delay) is over: the loop calls _connect, without the lock
reconnect_loop_sleep ==
    /\ reconnect_task # NULL /\ reconnect_task.pc = "sleep"
    /\ reconnect_task' = [reconnect_task EXCEPT !.pc = "connect"]
    /\ UNCHANGED <<producer_instance, pub, lock, connection, broker, retornos,
                   mensajes>>
    /\ UNCHANGED vars_trafico
    /\ UNCHANGED <<vars_gam, cierre, bucles>>

\* the _connect of the loop ends: delay = 2 and the loop is left, or the
\* delay is doubled and the loop goes on
reconnect_loop_connect ==
    /\ reconnect_task # NULL /\ reconnect_task.pc = "connect"
    /\ IF broker
       THEN /\ connection' = "abierta"
            /\ is_connected' = TRUE
            /\ reconnect_task' = [pc |-> "done"]
       ELSE /\ is_connected' = FALSE
            /\ reconnect_task' =
                   LET delay == Backoff(reconnect_task.delay) IN
                   IF while_not_connected(FALSE, delay)
                   THEN [pc |-> "sleep", delay |-> delay]
                   ELSE [pc |-> "done"]
            /\ UNCHANGED connection
    /\ bucles' = IF reconnect_task'.pc = "done" THEN bucles - 1 ELSE bucles
    /\ UNCHANGED <<producer_instance, pub, lock, broker, retornos, mensajes>>
    /\ UNCHANGED <<incidentes_trafico, validaciones_incidentes, req,
                   ultima_respuesta, llamadas, exchange, ultima_creacion, alta>>
    /\ UNCHANGED <<vars_gam, cierre>>

broker_cae ==
    /\ broker
    /\ broker' = FALSE
    /\ UNCHANGED <<producer_instance, pub, lock, connection, reconnect_task,
                   retornos, mensajes>>
    /\ UNCHANGED vars_trafico
    /\ UNCHANGED <<vars_gam, cierre, bucles>>

broker_vuelve ==
    /\ ~broker
    /\ broker' = TRUE
    /\ UNCHANGED <<producer_instance, pub, lock, connection, reconnect_task,
                   retornos, mensajes>>
    /\ UNCHANGED vars_trafico
    /\ UNCHANGED <<vars_gam, cierre, bucles>>

NextPub ==
    \/ get_producer
    \/ publish_event_llamada
    \/ \E c \in BagToSet(pub) : ensure_connected(c)
    \/ \E c \in BagToSet(pub) : ensure_connected_connect(c)
    \/ \E c \in BagToSet(pub) : exchange_publish(c)
    \/ cierre_inesperado
    \/ reconnect_loop
    \/ reconnect_loop_sleep
    \/ reconnect_loop_connect
    \/ broker_cae
    \/ broker_vuelve

SpecPub == Init /\ [][NextPub]_vars

\* The event loop runs a task that is ready: the task of the reconnection
\* loop starts, its sleep ends, and its connection attempt ends either way.
EquidadBucle ==
    /\ WF_vars(reconnect_loop)
    /\ WF_vars(reconnect_loop_sleep)
    /\ WF_vars(reconnect_loop_connect)

SpecPubVivo == Init /\ [][NextPub]_vars /\ EquidadBucle

\* =========================================================== gamification
\* ------------------------------------------------------------ the broker
\* json.dumps(message_data).encode("utf-8"), read back by
\* json.loads(message.body.decode("utf-8")): the body of a JSON object
json_dumps(campos) == [forma |-> "objeto", campos |-> campos]

\* the incident of user u as the verifying call holds it when it publishes
IncidenteVerificado(u) ==
    [NuevoIncidente(1, u, "choque", "alta")
        EXCEPT !.estado = VERIFICADO, !.validaciones_count = UMBRAL_VERIFICACION]

\* the payloads the docstring of process_validated_report expects, with the
\* severity and the points an event may carry
VARIANTE_ALTA == [severidad |-> "alta", puntos_base |-> 50]
VARIANTE_BAJA == [severidad |-> "baja", puntos_base |-> 10]
Variantes == {VARIANTE_ALTA, VARIANTE_BAJA}

CuerpoPremio(u, v) ==
    json_dumps([type |-> "reporte_validado",
                data |-> [reporte_id |-> 1, usuario_id |-> u,
                          severidad |-> v.severidad,
                          puntos_base |-> v.puntos_base]])

CuerpoCreado ==
    json_dumps([type |-> "reporte_creado",
                data |-> [reporte_id |-> 1, usuario_id |-> 1]])

\* a reward event without the recipient
CuerpoSinUsuario ==
    json_dumps([type |-> "reporte_validado", data |-> [reporte_id |-> 1]])

CuerpoOtroTipo ==
    json_dumps([type |-> "reporte_archivado", data |-> [usuario_id |-> 1]])

\* bytes that are not JSON, and JSON that is not an object
CuerpoNoJson == [forma |-> "invalido", campos |-> NULL]
CuerpoLista == [forma |-> "lista", campos |-> NULL]

\* the body publish_event builds for a verification
CuerpoDeTrafico(u) == json_dumps(EventoVerificado(IncidenteVerificado(u)))

Cuerpos ==
    {CuerpoPremio(u, v) : u \in Jugadores, v \in Variantes}
        \cup {CuerpoCreado, CuerpoSinUsuario, CuerpoOtroTipo, CuerpoNoJson,
              CuerpoLista}
        \cup {CuerpoDeTrafico(u) : u \in Creadores}

Claves == ROUTING_KEYS \cup {"reporte_verificado"}

\* The topic exchange: a message reaches gamification.reports when it is
\* published to the exchange the queue is bound to, with a bound routing key
\* (the keys hold no wildcard).
Enrutar(exchange_name, routing_key) ==
    exchange_name = EXCHANGE_NAME /\ routing_key \in ROUTING_KEYS

\* some publisher publishes cuerpo to the exchange the consumer declares
publicar_externo(routing_key, cuerpo) ==
    /\ publicados < MaxEventos
    /\ Len(cola) < MaxCola
    /\ IF Enrutar(EXCHANGE_NAME, routing_key)
       THEN cola' = Append(cola, cuerpo) /\ publicados' = publicados + 1
       ELSE UNCHANGED <<cola, publicados>>
    /\ UNCHANGED <<xp, coins, badges, leaderboard, consumo, ultimo, inicio,
                   ultima_lectura, ultimo_perfil>>
    /\ UNCHANGED <<vars_trafico, vars_pub, replica>>

\* the verifying call of the traffic service publishes its event: the
\* publisher's exchange, routing key = event_type
publicar_verificado(u) ==
    /\ publicados < MaxEventos
    /\ Len(cola) < MaxCola
    /\ publicados' = publicados + 1
    /\ \E entregado \in BOOLEAN :
         LET msg == EventoVerificado(IncidenteVerificado(u)) IN
         /\ publish_event(msg, entregado)
         /\ cola' = IF entregado /\ Enrutar(EXCHANGE_NAME_PRODUCER, msg.event_type)
                    THEN Append(cola, json_dumps(msg)) ELSE cola
    /\ UNCHANGED <<xp, coins, badges, leaderboard, consumo, ultimo, inicio,
                   ultima_lectura, ultimo_perfil>>
    /\ UNCHANGED <<incidentes_trafico, validaciones_incidentes, req,
                   ultima_respuesta, llamadas, ultima_creacion, alta>>
    /\ UNCHANGED <<vars_pub, replica>>

\* ---------------------------------------------------------- the consumer
\* "async with message.process(requeue=False)": acknowledged when the block
\* ends normally, rejected (not requeued) when an exception leaves it
message_process(escapa) == IF escapa THEN "reject" ELSE "ack"

\* the try of _on_message catches JSONDecodeError and Exception: nothing
\* leaves the block
Escapa(clase) == FALSE

Almacen ==
    [xp |-> xp, coins |-> coins, badges |-> badges, leaderboard |-> leaderboard]

\* (variant: a message whose handling returned an error goes back to the
\* queue)
Liquidado_reencola_errores(cuerpo, resultado, antes) ==
    [cuerpo |-> cuerpo, resultado |-> resultado, antes |-> antes,
     disposicion |-> IF resultado.clase = "error" THEN "requeue"
                     ELSE message_process(Escapa(resultado.clase))]

\* _on_message is over: the message is settled
Liquidado(cuerpo, resultado, antes) ==
    [cuerpo |-> cuerpo, resultado |-> resultado, antes |-> antes,
     disposicion |-> message_process(Escapa(resultado.clase))]

\* payload.get(k)
Tiene(d, k) == k \in DOMAIN d

\* data = event.get("data") or {}; user_id = data.get("usuario_id")
TieneUsuario(payload) ==
    Tiene(payload, "data") /\ Tiene(payload.data, "usuario_id")

process_created_report(payload) ==
    IF TieneUsuario(payload)
    THEN [clase |-> "creado", user_id |-> payload.data.usuario_id]
    ELSE [clase |-> "error", error |-> "usuario_id faltante"]

\* (variant: a created report is rewarded like a validated one)
Despacho_creado_premia(payload) ==
    IF Tiene(payload, "type")
    THEN (IF payload.type = "reporte_creado" THEN "reporte_validado" ELSE payload.type)
    ELSE "None"

\* (variant: a payload equal to the one settled last is skipped)
Despacho_sin_repetidos(payload) ==
    IF ultimo # NULL /\ ultimo.cuerpo.campos = payload
    THEN "None"
    ELSE IF Tiene(payload, "type") THEN payload.type ELSE "None"

\* event_type = payload.get("type"): the branch _on_message takes
Despacho(payload) == IF Tiene(payload, "type") THEN payload.type ELSE "None"

\* _on_message up to the first store command
on_message ==
    /\ consumo = NULL
    /\ cola # <<>>
    /\ LET cuerpo == Head(cola)
           payload == cuerpo.campos
           event_type == Despacho(payload)
           fin(resultado) ==
               /\ ultimo' = Liquidado(cuerpo, resultado, Almacen)
               /\ UNCHANGED consumo
       IN
       /\ cola' = Tail(cola)
       /\ IF cuerpo.forma = "invalido"
          THEN fin([clase |-> "JSONDecodeError"])
          ELSE IF cuerpo.forma # "objeto"
          THEN fin([clase |-> "excepcion"])
          ELSE IF event_type = "reporte_validado"
          THEN IF TieneUsuario(payload)
               THEN /\ consumo' = [pc |-> "add_xp", cuerpo |-> cuerpo,
                                   user_id |-> payload.data.usuario_id,
                                   antes |-> Almacen, total_xp |-> 0,
                                   total_coins |-> 0, pendientes |-> <<>>,
                                   new_badges |-> <<>>]
                    /\ UNCHANGED ultimo
               ELSE fin([clase |-> "error", error |-> "usuario_id faltante"])
          ELSE IF event_type = "reporte_creado"
          THEN fin(process_created_report(payload))
          ELSE fin([clase |-> "ignorado"])
    /\ UNCHANGED <<xp, coins, badges, leaderboard, publicados, inicio,
                   ultima_lectura, ultimo_perfil>>
    /\ UNCHANGED <<vars_trafico, vars_pub, replica>>

\* the handler raised (a store command failed): logged by _on_message
Excepcion ==
    /\ ultimo' = Liquidado(consumo.cuerpo, [clase |-> "excepcion"], consumo.antes)
    /\ consumo' = NULL

\* (variant: SET key n, the counter overwritten)
INCRBY_set(valor, n) == n

\* INCRBY key n
INCRBY(valor, n) == valor + n

\* ZADD leaderboard:xp {member: score}
ZADD(zset, member, score) ==
    [m \in DOMAIN zset \cup {member} |-> IF m = member THEN score ELSE zset[m]]

\* (variant: the XP of a reward taken from the event)
RecompensaXP_puntos_base(data) == data.puntos_base

\* the xp argument of add_xp in process_validated_report
RecompensaXP(data) == XP_PER_VALID_REPORT

\* add_xp, first command: total_xp = incrby(user:{id}:xp, xp)
add_xp_incrby ==
    /\ consumo # NULL /\ consumo.pc = "add_xp"
    /\ \E falla \in BOOLEAN :
         IF falla
            THEN Excepcion /\ UNCHANGED xp
            ELSE LET total == INCRBY(xp[consumo.user_id],
                                     RecompensaXP(consumo.cuerpo.campos.data)) IN
                 /\ xp' = [xp EXCEPT ![consumo.user_id] = total]
                 /\ consumo' = [consumo EXCEPT !.pc = "zadd", !.total_xp = total]
                 /\ UNCHANGED ultimo
    /\ UNCHANGED <<cola, coins, badges, leaderboard, publicados, inicio,
                   ultima_lectura, ultimo_perfil>>
    /\ UNCHANGED <<vars_trafico, vars_pub, replica>>

\* add_xp, second command: zadd("leaderboard:xp", {str(user_id): total_xp})
add_xp_zadd ==
    /\ consumo # NULL /\ consumo.pc = "zadd"
    /\ \E falla \in BOOLEAN :
         IF falla
            THEN Excepcion /\ UNCHANGED leaderboard
            ELSE /\ leaderboard' = ZADD(leaderboard, consumo.user_id, consumo.total_xp)
                 /\ consumo' = [consumo EXCEPT !.pc = "add_coins"]
                 /\ UNCHANGED ultimo
    /\ UNCHANGED <<cola, xp, coins, badges, publicados, inicio, ultima_lectura, ultimo_perfil>>
    /\ UNCHANGED <<vars_trafico, vars_pub, replica>>

\* add_coins: total_coins = incrby(user:{id}:coins, coins)
add_coins ==
    /\ consumo # NULL /\ consumo.pc = "add_coins"
    /\ \E falla \in BOOLEAN :
         IF falla
            THEN Excepcion /\ UNCHANGED coins
            ELSE LET total == INCRBY(coins[consumo.user_id], COINS_PER_VALID_REPORT) IN
                 /\ coins' = [coins EXCEPT ![consumo.user_id] = total]
                 /\ consumo' = [consumo EXCEPT !.pc = "get_badges",
                                               !.total_coins = total]
                 /\ UNCHANGED ultimo
    /\ UNCHANGED <<cola, xp, badges, leaderboard, publicados, inicio,
                   ultima_lectura, ultimo_perfil>>
    /\ UNCHANGED <<vars_trafico, vars_pub, replica>>

\* (variant: only the highest threshold reached is looked at)
NuevasInsignias_solo_mayor(total_xp, existing_badges) ==
    LET alcanzadas == {i \in DOMAIN BADGE_THRESHOLDS :
                          total_xp >= BADGE_THRESHOLDS[i].threshold}
        mayor == CHOOSE i \in alcanzadas : \A j \in alcanzadas : j <= i
    IN  IF alcanzadas = {} \/ BADGE_THRESHOLDS[mayor].badge_name \in existing_badges
        THEN <<>>
        ELSE <<BADGE_THRESHOLDS[mayor].badge_name>>

\* (variant: the badges already held are not looked at)
NuevasInsignias_sin_existentes(total_xp, existing_badges) ==
    LET califica(b) == total_xp >= b.threshold
        elegidas == SelectSeq(BADGE_THRESHOLDS, califica)
    IN  [i \in 1..Len(elegidas) |-> elegidas[i].badge_name]

\* the badges the loop of _check_and_assign_badges adds, in threshold order
NuevasInsignias(total_xp, existing_badges) ==
    LET califica(b) == total_xp >= b.threshold /\ b.badge_name \notin existing_badges
        elegidas == SelectSeq(BADGE_THRESHOLDS, califica)
    IN  [i \in 1..Len(elegidas) |-> elegidas[i].badge_name]

\* _check_and_assign_badges: existing_badges = set(get_badges(user_id))
get_badges ==
    /\ consumo # NULL /\ consumo.pc = "get_badges"
    /\ \E falla \in BOOLEAN :
         IF falla
            THEN Excepcion
            ELSE LET pendientes == NuevasInsignias(consumo.total_xp,
                                                   badges[consumo.user_id]) IN
                 /\ consumo' = [consumo EXCEPT
                                  !.pc = IF pendientes = <<>> THEN "all_badges"
                                         ELSE "add_badge",
                                  !.pendientes = pendientes]
                 /\ UNCHANGED ultimo
    /\ UNCHANGED <<cola, xp, coins, badges, leaderboard, publicados, inicio,
                   ultima_lectura, ultimo_perfil>>
    /\ UNCHANGED <<vars_trafico, vars_pub, replica>>

\* SADD key member
SADD(conjunto, member) == conjunto \cup {member}

\* one turn of the loop that adds: add_badge, new_badges.append
add_badge ==
    /\ consumo # NULL /\ consumo.pc = "add_badge"
    /\ \E falla \in BOOLEAN :
         IF falla
            THEN Excepcion /\ UNCHANGED badges
            ELSE LET badge_name == Head(consumo.pendientes)
                     resto == Tail(consumo.pendientes)
                 IN
                 /\ badges' = [badges EXCEPT ![consumo.user_id] = SADD(@, badge_name)]
                 /\ consumo' = [consumo EXCEPT
                                  !.pc = IF resto = <<>> THEN "all_badges"
                                         ELSE "add_badge",
                                  !.pendientes = resto,
                                  !.new_badges = Append(@, badge_name)]
                 /\ UNCHANGED ultimo
    /\ UNCHANGED <<cola, xp, coins, leaderboard, publicados, inicio, ultima_lectura, ultimo_perfil>>
    /\ UNCHANGED <<vars_trafico, vars_pub, replica>>

\* the returned dict, with "all_badges": get_badges(user_id), back in
\* _on_message
all_badges ==
    /\ consumo # NULL /\ consumo.pc = "all_badges"
    /\ \E falla \in BOOLEAN :
         IF falla
            THEN Excepcion
            ELSE /\ ultimo' =
                      Liquidado(consumo.cuerpo,
                                [clase |-> "premio",
                                 user_id |-> consumo.user_id,
                                 total_xp |-> consumo.total_xp,
                                 total_coins |-> consumo.total_coins,
                                 xp_awarded |-> XP_PER_VALID_REPORT,
                                 coins_awarded |-> COINS_PER_VALID_REPORT,
                                 new_badges |-> consumo.new_badges,
                                 all_badges |-> badges[consumo.user_id]],
                                consumo.antes)
                 /\ consumo' = NULL
    /\ UNCHANGED <<cola, xp, coins, badges, leaderboard, publicados, inicio,
                   ultima_lectura, ultimo_perfil>>
    /\ UNCHANGED <<vars_trafico, vars_pub, replica>>

\* ------------------------------------------------------- the leaderboard
\* (variant: ZRANGE, lowest score first)
PuestoEn_ascendente(zset, m) ==
    1 + Cardinality({n \in DOMAIN zset :
                        zset[n] < zset[m] \/ (zset[n] = zset[m] /\ n < m)})

\* members by score, highest first; equal scores by member, highest first
\* (the members are the decimal strings of one-digit user ids)
PuestoEn(zset, m) ==
    1 + Cardinality({n \in DOMAIN zset :
                        zset[n] > zset[m] \/ (zset[n] = zset[m] /\ n > m)})

\* ZREVRANGE key start stop WITHSCORES: inclusive 0-based indexes, a
\* negative index counts from the end
ZREVRANGE(zset, start, stop) ==
    LET n == Cardinality(DOMAIN zset)
        desde == IF start < 0 THEN (IF n + start < 0 THEN 0 ELSE n + start) ELSE start
        hasta == IF stop < 0 THEN n + stop ELSE (IF stop > n - 1 THEN n - 1 ELSE stop)
        orden == [i \in 1..n |-> CHOOSE m \in DOMAIN zset : PuestoEn(zset, m) = i]
    IN  [i \in 1..(IF hasta < desde THEN 0 ELSE hasta - desde + 1) |->
            [member |-> orden[desde + i], score |-> zset[orden[desde + i]]]]

\* RedisGamificationClient.get_leaderboard(limit)
leaderboard_top(limit) ==
    LET results == ZREVRANGE(leaderboard, 0, limit - 1) IN
    [idx \in 1..Len(results) |->
        [rank |-> idx, user_id |-> results[idx].member, xp |-> results[idx].score]]

\* the limit GET /leaderboard passes on
LimiteEfectivo(limit) ==
    IF limit < 1 \/ limit > LIMIT_MAX THEN LIMIT_DEFAULT ELSE limit

Limites == {0, 1, 2, 101}

\* GET /leaderboard?limit=
get_leaderboard(limit) ==
    /\ ultima_lectura' =
           [limit |-> limit, leaderboard |-> leaderboard_top(LimiteEfectivo(limit))]
    /\ UNCHANGED <<cola, xp, coins, badges, leaderboard, consumo, ultimo,
                   publicados, inicio, ultimo_perfil>>
    /\ UNCHANGED <<vars_trafico, vars_pub, replica>>

\* user 1 comes with any of the earlier counters, the others are new
InitGam ==
    /\ InitTrafico
    /\ \E previo \in EstadosPrevios :
         AlmacenInicial([u \in Jugadores |->
                            IF u = 1 THEN previo
                            ELSE [xp |-> 0, coins |-> 0, badges |-> {}]])

NextGam ==
    \/ \E k \in Claves, cuerpo \in Cuerpos : publicar_externo(k, cuerpo)
    \/ \E u \in Creadores : publicar_verificado(u)
    \/ on_message
    \/ add_xp_incrby
    \/ add_xp_zadd
    \/ add_coins
    \/ get_badges
    \/ add_badge
    \/ all_badges

SpecGam == InitGam /\ [][NextGam]_vars

\* the reward events published while the store is read: one per player
CuerposDeLectura == {CuerpoPremio(u, VARIANTE_ALTA) : u \in Jugadores}

\* The leaderboard read while rewards arrive.
NextLectura ==
    \/ \E cuerpo \in CuerposDeLectura :
          publicar_externo("reporte_validado", cuerpo)
    \/ on_message
    \/ add_xp_incrby
    \/ add_xp_zadd
    \/ add_coins
    \/ get_badges
    \/ add_badge
    \/ all_badges
    \/ \E limit \in Limites : get_leaderboard(limit)

SpecLectura == InitGam /\ [][NextLectura]_vars

\* ----------------------------------------------------------- the profile
\* int(math.sqrt(num / den)): the integer part of the square root
int_sqrt(num, den) ==
    CHOOSE r \in 0..(num \div den) :
        r * r * den <= num /\ (r + 1) * (r + 1) * den > num

\* (variant: the level grows with the XP itself)
level_sin_raiz(total_xp) ==
    ((IF total_xp > 0 THEN total_xp ELSE 0) \div 100) + 1

\* level = int(math.sqrt(max(xp, 0) / 100)) + 1
level(total_xp) == int_sqrt(IF total_xp > 0 THEN total_xp ELSE 0, 100) + 1

\* GET /profile/{user_id}: get_user_profile reads the three keys of the user
\* and computes the level
get_user_profile(user_id) ==
    /\ ultimo_perfil' = [user_id |-> user_id, xp |-> xp[user_id],
                         coins |-> coins[user_id], level |-> level(xp[user_id]),
                         badges |-> badges[user_id]]
    /\ UNCHANGED <<cola, xp, coins, badges, leaderboard, consumo, ultimo,
                   publicados, inicio, ultima_lectura>>
    /\ UNCHANGED <<vars_trafico, vars_pub, replica>>

\* the counters of a user whose rewards so far add up to total_xp
EstadoConXP(total_xp) ==
    LET ganadas == NuevasInsignias(total_xp, {}) IN
    [xp |-> total_xp,
     coins |-> (total_xp \div XP_PER_VALID_REPORT) * COINS_PER_VALID_REPORT,
     badges |-> {ganadas[i] : i \in DOMAIN ganadas}]

\* XP a user may come with: none, or one reward short of a level up to
\* MaxNivel + 1 (90, 390, 890, 1590, ...)
XPPrevios == {0} \cup {100 * n * n - XP_PER_VALID_REPORT : n \in 1..MaxNivel}

InitPerfil ==
    /\ InitTrafico
    /\ \E previo \in XPPrevios :
         AlmacenInicial([u \in Jugadores |->
                            IF u = 1 THEN EstadoConXP(previo) ELSE EstadoConXP(0)])

\* The profile read while rewards arrive.
NextPerfil ==
    \/ \E cuerpo \in CuerposDeLectura :
          publicar_externo("reporte_validado", cuerpo)
    \/ on_message
    \/ add_xp_incrby
    \/ add_xp_zadd
    \/ add_coins
    \/ get_badges
    \/ add_badge
    \/ all_badges
    \/ \E u \in Jugadores : get_user_profile(u)

SpecPerfil == InitPerfil /\ [][NextPerfil]_vars

\* ------------------------------------------------- a second instance
\* A second instance of the gamification service consumes the same queue and
\* writes to the same counter store: its _on_message runs the same store
\* commands, interleaved with those of the first instance.
ReplicaExcepcion ==
    /\ ultimo' = Liquidado(replica.cuerpo, [clase |-> "excepcion"], replica.antes)
    /\ replica' = NULL

\* _on_message of the second instance up to the first store command
replica_on_message ==
    /\ replica = NULL
    /\ cola # <<>>
    /\ LET cuerpo == Head(cola)
           payload == cuerpo.campos
           event_type == Despacho(payload)
           fin(resultado) ==
               /\ ultimo' = Liquidado(cuerpo, resultado, Almacen)
               /\ UNCHANGED replica
       IN
       /\ cola' = Tail(cola)
       /\ IF cuerpo.forma = "invalido"
          THEN fin([clase |-> "JSONDecodeError"])
          ELSE IF cuerpo.forma # "objeto"
          THEN fin([clase |-> "excepcion"])
          ELSE IF event_type = "reporte_validado"
          THEN IF TieneUsuario(payload)
               THEN /\ replica' = [pc |-> "add_xp", cuerpo |-> cuerpo,
                                   user_id |-> payload.data.usuario_id,
                                   antes |-> Almacen, total_xp |-> 0,
                                   total_coins |-> 0, pendientes |-> <<>>,
                                   new_badges |-> <<>>]
                    /\ UNCHANGED ultimo
               ELSE fin([clase |-> "error", error |-> "usuario_id faltante"])
          ELSE IF event_type = "reporte_creado"
          THEN fin(process_created_report(payload))
          ELSE fin([clase |-> "ignorado"])
    /\ UNCHANGED <<xp, coins, badges, leaderboard, consumo, publicados, inicio,
                   ultima_lectura, ultimo_perfil>>
    /\ UNCHANGED <<vars_trafico, vars_pub>>

replica_add_xp_incrby ==
    /\ replica # NULL /\ replica.pc = "add_xp"
    /\ \E falla \in BOOLEAN :
         IF falla
            THEN ReplicaExcepcion /\ UNCHANGED xp
            ELSE LET total == INCRBY(xp[replica.user_id],
                                     RecompensaXP(replica.cuerpo.campos.data)) IN
                 /\ xp' = [xp EXCEPT ![replica.user_id] = total]
                 /\ replica' = [replica EXCEPT !.pc = "zadd", !.total_xp = total]
                 /\ UNCHANGED ultimo
    /\ UNCHANGED <<cola, coins, badges, leaderboard, consumo, publicados, inicio,
                   ultima_lectura, ultimo_perfil>>
    /\ UNCHANGED <<vars_trafico, vars_pub>>

replica_add_xp_zadd ==
    /\ replica # NULL /\ replica.pc = "zadd"
    /\ \E falla \in BOOLEAN :
         IF falla
            THEN ReplicaExcepcion /\ UNCHANGED leaderboard
            ELSE /\ leaderboard' = ZADD(leaderboard, replica.user_id, replica.total_xp)
                 /\ replica' = [replica EXCEPT !.pc = "add_coins"]
                 /\ UNCHANGED ultimo
    /\ UNCHANGED <<cola, xp, coins, badges, consumo, publicados, inicio,
                   ultima_lectura, ultimo_perfil>>
    /\ UNCHANGED <<vars_trafico, vars_pub>>

replica_add_coins ==
    /\ replica # NULL /\ replica.pc = "add_coins"
    /\ \E falla \in BOOLEAN :
         IF falla
            THEN ReplicaExcepcion /\ UNCHANGED coins
            ELSE LET total == INCRBY(coins[replica.user_id], COINS_PER_VALID_REPORT) IN
                 /\ coins' = [coins EXCEPT ![replica.user_id] = total]
                 /\ replica' = [replica EXCEPT !.pc = "get_badges",
                                               !.total_coins = total]
                 /\ UNCHANGED ultimo
    /\ UNCHANGED <<cola, xp, badges, leaderboard, consumo, publicados, inicio,
                   ultima_lectura, ultimo_perfil>>
    /\ UNCHANGED <<vars_trafico, vars_pub>>

replica_get_badges ==
    /\ replica # NULL /\ replica.pc = "get_badges"
    /\ \E falla \in BOOLEAN :
         IF falla
            THEN ReplicaExcepcion
            ELSE LET pendientes == NuevasInsignias(replica.total_xp,
                                                   badges[replica.user_id]) IN
                 /\ replica' = [replica EXCEPT
                                  !.pc = IF pendientes = <<>> THEN "all_badges"
                                         ELSE "add_badge",
                                  !.pendientes = pendientes]
                 /\ UNCHANGED ultimo
    /\ UNCHANGED <<cola, xp, coins, badges, leaderboard, consumo, publicados,
                   inicio, ultima_lectura, ultimo_perfil>>
    /\ UNCHANGED <<vars_trafico, vars_pub>>

replica_add_badge ==
    /\ replica # NULL /\ replica.pc = "add_badge"
    /\ \E falla \in BOOLEAN :
         IF falla
            THEN ReplicaExcepcion /\ UNCHANGED badges
            ELSE LET badge_name == Head(replica.pendientes)
                     resto == Tail(replica.pendientes)
                 IN
                 /\ badges' = [badges EXCEPT ![replica.user_id] = SADD(@, badge_name)]
                 /\ replica' = [replica EXCEPT
                                  !.pc = IF resto = <<>> THEN "all_badges"
                                         ELSE "add_badge",
                                  !.pendientes = resto,
                                  !.new_badges = Append(@, badge_name)]
                 /\ UNCHANGED ultimo
    /\ UNCHANGED <<cola, xp, coins, leaderboard, consumo, publicados, inicio,
                   ultima_lectura, ultimo_perfil>>
    /\ UNCHANGED <<vars_trafico, vars_pub>>

replica_all_badges ==
    /\ replica # NULL /\ replica.pc = "all_badges"
    /\ \E falla \in BOOLEAN :
         IF falla
            THEN ReplicaExcepcion
            ELSE /\ ultimo' =
                      Liquidado(replica.cuerpo,
                                [clase |-> "premio",
                                 user_id |-> replica.user_id,
                                 total_xp |-> replica.total_xp,
                                 total_coins |-> replica.total_coins,
                                 xp_awarded |-> XP_PER_VALID_REPORT,
                                 coins_awarded |-> COINS_PER_VALID_REPORT,
                                 new_badges |-> replica.new_badges,
                                 all_badges |-> badges[replica.user_id]],
                                replica.antes)
                 /\ replica' = NULL
    /\ UNCHANGED <<cola, xp, coins, badges, leaderboard, consumo, publicados,
                   inicio, ultima_lectura, ultimo_perfil>>
    /\ UNCHANGED <<vars_trafico, vars_pub>>

\* Two instances of the service on one queue and one store.
NextReplicas ==
    \/ \E cuerpo \in CuerposDeLectura :
          publicar_externo("reporte_validado", cuerpo)
    \/ on_message
    \/ add_xp_incrby
    \/ add_xp_zadd
    \/ add_coins
    \/ get_badges
    \/ add_badge
    \/ all_badges
    \/ replica_on_message
    \/ replica_add_xp_incrby
    \/ replica_add_xp_zadd
    \/ replica_add_coins
    \/ replica_get_badges
    \/ replica_add_badge
    \/ replica_all_badges

SpecReplicas == InitGam /\ [][NextReplicas]_vars

\* ---------------------------------------------------------- shutdown
\* The shutdown handler of the service calls close_producer() once the
\* requests are over: no publish_event call is in flight and none arrives
\* any more.  close() is suspended at its awaits.

\* close(): a reconnection task that is not done is cancelled and awaited
close_producer ==
    /\ producer_instance
    /\ cierre = "no"
    /\ pub = EmptyBag
    /\ reconnect_task' = IF SinTarea THEN reconnect_task ELSE [pc |-> "done"]
    /\ bucles' = IF SinTarea THEN bucles ELSE bucles - 1
    /\ cierre' = "channel"
    /\ UNCHANGED <<producer_instance, pub, lock, connection, broker, retornos,
                   mensajes>>
    /\ UNCHANGED vars_trafico
    /\ UNCHANGED vars_gam

\* close(): await self._channel.close(), when the channel is open
close_channel ==
    /\ cierre = "channel"
    /\ cierre' = "connection"
    /\ UNCHANGED <<producer_instance, pub, lock, connection, reconnect_task,
                   broker, retornos, mensajes, bucles>>
    /\ UNCHANGED vars_trafico
    /\ UNCHANGED vars_gam

\* close(): await self._connection.close() when it is not closed, which
\* calls the close callback registered in _connect; then
\* self._is_connected = False, and close_producer drops the singleton
close_connection ==
    /\ cierre = "connection"
    /\ IF connection = "abierta"
       THEN /\ connection' = "cerrada"
            /\ reconnect_task' = IF SinTarea THEN [pc |-> "creada"]
                                 ELSE reconnect_task
            /\ bucles' = IF SinTarea THEN bucles + 1 ELSE bucles
       ELSE UNCHANGED <<connection, reconnect_task, bucles>>
    /\ is_connected' = FALSE
    /\ producer_instance' = FALSE
    /\ cierre' = "cerrado"
    /\ UNCHANGED <<pub, lock, broker, retornos, mensajes>>
    /\ UNCHANGED <<incidentes_trafico, validaciones_incidentes, req,
                   ultima_respuesta, llamadas, exchange, ultima_creacion, alta>>
    /\ UNCHANGED vars_gam

\* The publisher from its creation to the shutdown of the service.
NextCierre ==
    \/ cierre = "no" /\ get_producer
    \/ cierre = "no" /\ publish_event_llamada
    \/ \E c \in BagToSet(pub) : ensure_connected(c)
    \/ \E c \in BagToSet(pub) : ensure_connected_connect(c)
    \/ \E c \in BagToSet(pub) : exchange_publish(c)
    \/ cierre_inesperado
    \/ reconnect_loop
    \/ reconnect_loop_sleep
    \/ reconnect_loop_connect
    \/ broker_cae
    \/ broker_vuelve
    \/ close_producer
    \/ close_channel
    \/ close_connection

SpecCierre == Init /\ [][NextCierre]_vars

\* ================================================================ claims
Ids == DOMAIN incidentes_trafico

\* number of ValidationRecord rows of incident i
Validaciones(i) ==
    BagCardinality([f \in {g \in BagToSet(validaciones_incidentes) : g.incidente_id = i}
                      |-> validaciones_incidentes[f]])

\* number of reporte_verificado messages the exchange accepted for incident i
EventosVerificado(i) ==
    BagCardinality([m \in {n \in BagToSet(exchange) :
                             n.event_type = "reporte_verificado" /\ n.incidente_id = i}
                      |-> exchange[m]])

Respondio200 == ultima_respuesta # NULL /\ ultima_respuesta.cuerpo.status = 200

\* C1: whatever the interleaving of concurrent calls, an incident gets at most
\* one verifying call and at most one reporte_verificado event.
C1_UnaSolaVerificacion ==
    \A i \in Ids : EventosVerificado(i) <= 1

\* C2: once no call is in flight, the stored validaciones_count of every
\* incident equals the number of its ValidationRecord rows.
C2_SinIncrementoPerdido ==
    req = EmptyBag =>
        \A i \in Ids : incidentes_trafico[i].validaciones_count = Validaciones(i)

\* C3: at most one ValidationRecord per (incident, user), also when the same
\* user validates the same incident concurrently.
C3_ValidacionUnica ==
    \A f \in BagToSet(validaciones_incidentes) :
        CopiesIn(f, validaciones_incidentes) <= 1

\* the constraint refused the INSERT of a call that had passed the duplicate
\* check, and the row of the other call is there
C3_Witness ==
    /\ ultima_respuesta # NULL
    /\ ultima_respuesta.cuerpo = HTTP_500
    /\ BagIn(ValidacionIncidente(ultima_respuesta.reporte_id,
                                 ultima_respuesta.usuario_id),
             validaciones_incidentes)

\* C4: an incident is 'verificado' only with at least 3 validations recorded,
\* it is 'verificado' whenever its validaciones_count is 3, and the commit that
\* makes it 'verificado' is the one that makes the count 3.
C4_VerificadoConTres ==
    [][\A i \in DOMAIN incidentes_trafico' :
         LET despues == incidentes_trafico'[i] IN
         /\ despues.estado = VERIFICADO =>
                BagCardinality([f \in {g \in BagToSet(validaciones_incidentes') :
                                          g.incidente_id = i}
                                  |-> validaciones_incidentes'[f]])
                    >= UMBRAL_VERIFICACION
         /\ despues.validaciones_count >= UMBRAL_VERIFICACION =>
                despues.estado = VERIFICADO
         /\ (i \in Ids /\ incidentes_trafico[i].estado # VERIFICADO
               /\ despues.estado = VERIFICADO) =>
                /\ incidentes_trafico[i].validaciones_count < UMBRAL_VERIFICACION
                /\ despues.validaciones_count = UMBRAL_VERIFICACION]_vars

\* an incident has just been verified by the call that answered
C4_Witness ==
    /\ Respondio200
    /\ ultima_respuesta.cuerpo.verificado
    /\ BagIn(ValidacionIncidente(ultima_respuesta.reporte_id,
                                 ultima_respuesta.usuario_id),
             validaciones_incidentes)
    /\ incidentes_trafico[ultima_respuesta.reporte_id].estado = VERIFICADO
    /\ incidentes_trafico[ultima_respuesta.reporte_id].validaciones_count = 3

\* C5: validaciones_count never decreases, and never exceeds the number of
\* distinct users with a recorded validation of the incident.
C5_ContadorMonotono ==
    [][\A i \in Ids :
         /\ incidentes_trafico'[i].validaciones_count
                >= incidentes_trafico[i].validaciones_count
         /\ incidentes_trafico'[i].validaciones_count
                <= Cardinality({f.usuario_id : f \in
                       {g \in BagToSet(validaciones_incidentes') :
                           g.incidente_id = i}})]_vars

\* C6: a call by the incident's owner is answered with the self-validation
\* error whatever the incident's state, goes no further, and no
\* ValidationRecord of an owner on the own incident exists.
C6_CreadorNoValida ==
    /\ \A f \in BagToSet(validaciones_incidentes) :
           incidentes_trafico[f.incidente_id].usuario_id # f.usuario_id
    /\ \A c \in BagToSet(req) :
           incidentes_trafico[c.reporte_id].usuario_id # c.usuario_id
    /\ (/\ ultima_respuesta # NULL
        /\ ultima_respuesta.cuerpo # HTTP_404
        /\ ultima_respuesta.reporte_id \in Ids
        /\ incidentes_trafico[ultima_respuesta.reporte_id].usuario_id
               = ultima_respuesta.usuario_id)
           => ultima_respuesta.cuerpo = HTTP_400_PROPIO

\* the owner was rejected on an incident that is already verified
C6_Witness ==
    /\ ultima_respuesta # NULL
    /\ ultima_respuesta.cuerpo = HTTP_400_PROPIO
    /\ incidentes_trafico[ultima_respuesta.reporte_id].usuario_id
           = ultima_respuesta.usuario_id
    /\ incidentes_trafico[ultima_respuesta.reporte_id].estado = VERIFICADO

\* C7: a call of a non-owner without a prior validation that loaded the
\* incident as 'verificado' ends at its second statement with a 200,
\* verificado = true and the count it loaded; that step changes neither table
\* and publishes nothing.
C7_YaVerificadoSinEfecto ==
    [][\A c \in BagToSet(req) :
         (/\ c.pc = "comprobar"
          /\ CopiesIn(c, req') < CopiesIn(c, req)
          /\ c.incidente.estado = VERIFICADO
          /\ ~BagIn(ValidacionIncidente(c.reporte_id, c.usuario_id),
                    validaciones_incidentes))
         => /\ req' = Sale(c)
            /\ UNCHANGED <<incidentes_trafico, validaciones_incidentes, exchange>>
            /\ ultima_respuesta' =
                 [reporte_id |-> c.reporte_id, usuario_id |-> c.usuario_id,
                  cuerpo |-> [status |-> 200, incidente_id |-> c.reporte_id,
                              usuario_id |-> c.usuario_id,
                              validaciones_count |-> c.incidente.validaciones_count,
                              estado |-> VERIFICADO, verificado |-> TRUE]]]_vars

\* a user without a ValidationRecord got the already-verified answer
C7_Witness ==
    /\ Respondio200
    /\ ultima_respuesta.cuerpo.verificado
    /\ ultima_respuesta.cuerpo.validaciones_count = 3
    /\ ~BagIn(ValidacionIncidente(ultima_respuesta.reporte_id,
                                  ultima_respuesta.usuario_id),
              validaciones_incidentes)
    /\ incidentes_trafico[ultima_respuesta.reporte_id].usuario_id
           # ultima_respuesta.usuario_id

\* C8: an incident that is 'verificado' stays 'verificado': no step returns it
\* to 'pendiente' (or to any other state), so it enters 'verificado' once.
C8_VerificadoEsEstable ==
    [][\A i \in Ids :
         incidentes_trafico[i].estado = VERIFICADO
             => incidentes_trafico'[i].estado = VERIFICADO]_vars

\* a commit landed on an incident that was already verified
C8_Witness ==
    /\ Respondio200
    /\ ~ultima_respuesta.cuerpo.verificado
    /\ ultima_respuesta.cuerpo.estado = VERIFICADO
    /\ incidentes_trafico[ultima_respuesta.reporte_id].estado = VERIFICADO

C10_EventoDeVerificacion ==
    /\ \A c \in BagToSet(req) :
         /\ c.pc = "publicar" =>
              /\ c.verificado /\ c.publicado = "no"
              /\ LET e == EventoVerificado(c.incidente) IN
                 /\ e.event_type = "reporte_verificado"
                 /\ e.user_id = incidentes_trafico[c.reporte_id].usuario_id
                 /\ e.user_id # c.usuario_id
                 /\ e.incidente_id = c.reporte_id
                 /\ e.puntos_base = 50
                 /\ e.validaciones_count = 3
         /\ c.pc = "commit" => (c.verificado <=> c.publicado # "no")
    /\ \A m \in BagToSet(exchange) :
         m.event_type = "reporte_verificado" =>
              /\ m.incidente_id \in Ids
              /\ m.user_id = incidentes_trafico[m.incidente_id].usuario_id
              /\ m.puntos_base = 50
              /\ m.validaciones_count = 3

\* the verifying call has committed and its event is in the exchange
C10_Witness ==
    /\ Respondio200
    /\ ultima_respuesta.cuerpo.verificado
    /\ BagIn(ValidacionIncidente(ultima_respuesta.reporte_id,
                                 ultima_respuesta.usuario_id),
             validaciones_incidentes)
    /\ EventosVerificado(ultima_respuesta.reporte_id) = 1

\* C12: a 'reporte_verificado' publication that fails changes nothing and
\* sends no response: the call goes on to its commit with what it holds; and
\* the commit of a call whose publication failed, unless the unique constraint
\* refuses its INSERT, stores the ValidationRecord, the count and 'verificado'
\* and answers 200 with verificado = true.
C12_PublicacionFallida ==
    [][\A c \in BagToSet(req) :
         /\ (/\ c.pc = "publicar"
             /\ CopiesIn(c, req') < CopiesIn(c, req)
             /\ exchange' = exchange)
            => /\ req' = Sigue(c, [c EXCEPT !.pc = "commit", !.publicado = "fallo"])
               /\ UNCHANGED <<incidentes_trafico, validaciones_incidentes,
                              ultima_respuesta>>
         /\ (/\ c.pc = "commit"
             /\ c.publicado = "fallo"
             /\ CopiesIn(c, req') < CopiesIn(c, req)
             /\ ~BagIn(ValidacionIncidente(c.reporte_id, c.usuario_id),
                       validaciones_incidentes))
            => /\ req' = Sale(c)
               /\ validaciones_incidentes' = validaciones_incidentes
                      (+) SetToBag({ValidacionIncidente(c.reporte_id, c.usuario_id)})
               /\ incidentes_trafico'[c.reporte_id].estado = VERIFICADO
               /\ incidentes_trafico'[c.reporte_id].validaciones_count
                      = c.incidente.validaciones_count
               /\ ultima_respuesta'.cuerpo.status = 200
               /\ ultima_respuesta'.cuerpo.verificado
               /\ ultima_respuesta'.cuerpo.estado = VERIFICADO]_vars

\* the verifying call was answered and committed, and no event of the
\* incident is in the exchange
C12_Witness ==
    /\ Respondio200
    /\ ultima_respuesta.cuerpo.verificado
    /\ ultima_respuesta.cuerpo.validaciones_count = UMBRAL_VERIFICACION
    /\ BagIn(ValidacionIncidente(ultima_respuesta.reporte_id,
                                 ultima_respuesta.usuario_id),
             validaciones_incidentes)
    /\ incidentes_trafico[ultima_respuesta.reporte_id].estado = VERIFICADO
    /\ EventosVerificado(ultima_respuesta.reporte_id) = 0

\* C13: every step leaves the ValidationRecords and the row of an incident
\* as they were, or is the commit of one call that inserts its record, stores
\* the count it incremented and, when it verifies, 'verificado', all at once;
\* a commit that is refused changes neither and answers 500.
C13_TransaccionAtomica ==
    [][/\ \A i \in Ids :
            \/ /\ incidentes_trafico'[i] = incidentes_trafico[i]
               /\ \A u \in Usuarios :
                    CopiesIn(ValidacionIncidente(i, u), validaciones_incidentes')
                        = CopiesIn(ValidacionIncidente(i, u), validaciones_incidentes)
            \/ \E c \in BagToSet(req) :
                 /\ c.pc = "commit" /\ c.reporte_id = i
                 /\ req' = Sale(c)
                 /\ validaciones_incidentes' = validaciones_incidentes
                        (+) SetToBag({ValidacionIncidente(i, c.usuario_id)})
                 /\ incidentes_trafico'[i].validaciones_count
                        = c.incidente.validaciones_count
                 /\ incidentes_trafico'[i].estado =
                        IF c.verificado THEN VERIFICADO
                        ELSE incidentes_trafico[i].estado
                 /\ ultima_respuesta'.cuerpo.status = 200
       /\ \A c \in BagToSet(req) :
            (/\ c.pc = "commit"
             /\ CopiesIn(c, req') < CopiesIn(c, req)
             /\ BagIn(ValidacionIncidente(c.reporte_id, c.usuario_id),
                      validaciones_incidentes))
            => /\ UNCHANGED <<incidentes_trafico, validaciones_incidentes>>
               /\ ultima_respuesta' = Respuesta(c, HTTP_500)]_vars

\* a commit was refused and rolled back: the count and the records of the
\* incident agree, and the user's record is the one of the other call
C13_Witness ==
    /\ req = EmptyBag
    /\ ultima_respuesta # NULL
    /\ ultima_respuesta.cuerpo = HTTP_500
    /\ incidentes_trafico[ultima_respuesta.reporte_id].validaciones_count
           = Validaciones(ultima_respuesta.reporte_id)
    /\ CopiesIn(ValidacionIncidente(ultima_respuesta.reporte_id,
                                    ultima_respuesta.usuario_id),
                validaciones_incidentes) = 1

\* --------------------------------------------------------- gamification
\* the body is waiting in the queue or is being handled
EnElConsumidor(cuerpo) ==
    \/ \E i \in 1..Len(cola) : cola[i] = cuerpo
    \/ consumo # NULL /\ consumo.cuerpo = cuerpo

\* C11: every reporte_verificado event the traffic publisher has handed to
\* its exchange is routed to the consumer's queue and, once consumed, has
\* added the reward to the incident owner's counters: it is waiting or being
\* handled, or the owner has at least 10 XP and 5 coins more than at the start.
C11_RecompensaEntregada ==
    \A m \in BagToSet(exchange) :
        m.event_type = "reporte_verificado" =>
            \/ EnElConsumidor(json_dumps(m))
            \/ /\ xp[m.user_id] >= inicio[m.user_id].xp + XP_PER_VALID_REPORT
               /\ coins[m.user_id] >= inicio[m.user_id].coins + COINS_PER_VALID_REPORT

\* the consumer is idle and the last message it settled was a reward that
\* process_validated_report handled to its end
PremioHecho ==
    /\ consumo = NULL
    /\ ultimo # NULL
    /\ ultimo.resultado.clase = "premio"

\* C14: a reward event handled to its end for user u has added exactly 10 to
\* u's XP and 5 to u's coins, whatever its severity and puntos_base, and has
\* left the XP, coins and badges of every other user as they were.
C14_RecompensaFija ==
    PremioHecho =>
        LET u == ultimo.resultado.user_id
            antes == ultimo.antes
        IN
        /\ u = ultimo.cuerpo.campos.data.usuario_id
        /\ xp[u] = antes.xp[u] + 10
        /\ coins[u] = antes.coins[u] + 5
        /\ ultimo.resultado.total_xp = xp[u]
        /\ ultimo.resultado.total_coins = coins[u]
        /\ ultimo.resultado.xp_awarded = 10
        /\ ultimo.resultado.coins_awarded = 5
        /\ \A v \in Jugadores \ {u} :
             /\ xp[v] = antes.xp[v]
             /\ coins[v] = antes.coins[v]
             /\ badges[v] = antes.badges[v]

\* a reward of severity 'alta' and puntos_base 50 was handled for a user
\* while another user had XP and coins
C14_Witness ==
    /\ PremioHecho
    /\ ultimo.cuerpo.campos.data.severidad = "alta"
    /\ ultimo.cuerpo.campos.data.puntos_base = 50
    /\ \E v \in Jugadores \ {ultimo.resultado.user_id} : xp[v] > 0 /\ coins[v] > 0

\* the badges whose threshold is at most total_xp
Alcanzadas(total_xp) ==
    {BADGE_THRESHOLDS[i].badge_name :
        i \in {j \in DOMAIN BADGE_THRESHOLDS : BADGE_THRESHOLDS[j].threshold <= total_xp}}

\* C15: after a reward event was handled to its end, the user holds every
\* badge whose threshold (100, 250, 500, 1000) is at most the total XP after
\* the addition, and the new badges reported are exactly the reached ones the
\* user did not hold before, each once.
C15_InsigniasAlcanzadas ==
    PremioHecho =>
        LET u == ultimo.resultado.user_id
            total == ultimo.resultado.total_xp
            nuevas == ultimo.resultado.new_badges
        IN
        /\ Alcanzadas(total) \subseteq badges[u]
        /\ total >= 100 => "Explorador Urbano" \in badges[u]
        /\ total >= 250 => "Guardian de la Ciudad" \in badges[u]
        /\ {nuevas[i] : i \in DOMAIN nuevas} = Alcanzadas(total) \ ultimo.antes.badges[u]
        /\ Len(nuevas) = Cardinality({nuevas[i] : i \in DOMAIN nuevas})
        /\ badges[u] = ultimo.antes.badges[u] \cup Alcanzadas(total)
        /\ ultimo.resultado.all_badges = badges[u]

\* one reward took a user without badges past two thresholds
C15_Witness ==
    /\ PremioHecho
    /\ ultimo.resultado.total_xp = 250
    /\ ultimo.antes.badges[ultimo.resultado.user_id] = {}
    /\ ultimo.resultado.new_badges = <<"Explorador Urbano", "Guardian de la Ciudad">>

\* C16: whatever is consumed, no step lowers the XP or the coins of a user or
\* takes a badge away.
C16_ContadoresCrecientes ==
    [][\A u \in Jugadores :
         /\ xp'[u] >= xp[u]
         /\ coins'[u] >= coins[u]
         /\ badges[u] \subseteq badges'[u]]_vars

\* a user gained XP, coins and a badge, and then a message that is not JSON
\* was consumed
C16_Witness ==
    /\ consumo = NULL
    /\ ultimo # NULL
    /\ ultimo.cuerpo = CuerpoNoJson
    /\ \E u \in Jugadores :
         /\ xp[u] > inicio[u].xp
         /\ coins[u] > inicio[u].coins
         /\ badges[u] # inicio[u].badges

\* the reward being handled, both counters already incremented, has the body
\* of the reward that was handled to its end just before
SegundaEntrega ==
    /\ consumo # NULL
    /\ consumo.pc \in {"get_badges", "add_badge", "all_badges"}
    /\ ultimo # NULL
    /\ ultimo.resultado.clase = "premio"
    /\ ultimo.cuerpo = consumo.cuerpo

\* a reward event that names its user
EsCuerpoPremio(cuerpo) ==
    /\ cuerpo.forma = "objeto"
    /\ Tiene(cuerpo.campos, "type")
    /\ cuerpo.campos.type = "reporte_validado"
    /\ TieneUsuario(cuerpo.campos)

\* C17: the reward is applied on every delivery, a repeated one included (a
\* delivery of a reward event that does not end in an exception has added the
\* reward), and the same reward event delivered twice is applied twice: after
\* the second delivery the user has 20 XP and 10 coins more than before the
\* first.
C17_DuplicadoSumaDosVeces ==
    /\ (consumo = NULL /\ ultimo # NULL /\ EsCuerpoPremio(ultimo.cuerpo)
           /\ ultimo.resultado.clase # "excepcion")
        => /\ ultimo.resultado.clase = "premio"
           /\ xp[ultimo.resultado.user_id]
                  = ultimo.antes.xp[ultimo.resultado.user_id] + 10
           /\ coins[ultimo.resultado.user_id]
                  = ultimo.antes.coins[ultimo.resultado.user_id] + 5
    /\ SegundaEntrega =>
        LET u == consumo.user_id IN
        /\ xp[u] = ultimo.antes.xp[u] + 20
        /\ coins[u] = ultimo.antes.coins[u] + 10
        /\ consumo.antes.xp[u] = ultimo.antes.xp[u] + 10
        /\ consumo.total_xp = ultimo.resultado.total_xp + 10
        /\ consumo.total_coins = ultimo.resultado.total_coins + 5

\* the second delivery is about to return
C17_Witness ==
    /\ SegundaEntrega
    /\ consumo.pc = "all_badges"
    /\ xp[consumo.user_id] = inicio[consumo.user_id].xp + 20

\* C18: once the badge check of a reward has run, running it again for the
\* same user and the same total XP finds nothing to add, so it reports no new
\* badge and leaves the badge set as it is; and the check never adds or
\* reports a badge the user already held.
C18_InsigniasIdempotentes ==
    /\ PremioHecho =>
         LET u == ultimo.resultado.user_id
             nuevas == ultimo.resultado.new_badges
         IN
         /\ NuevasInsignias(ultimo.resultado.total_xp, badges[u]) = <<>>
         /\ {nuevas[i] : i \in DOMAIN nuevas} \cap ultimo.antes.badges[u] = {}
    /\ (consumo # NULL /\ consumo.pc = "all_badges") =>
         NuevasInsignias(consumo.total_xp, badges[consumo.user_id]) = <<>>
    /\ (consumo # NULL /\ consumo.pc = "add_badge") =>
         \A i \in DOMAIN consumo.pendientes :
             consumo.pendientes[i] \notin badges[consumo.user_id]

\* the check ran for a user who already held the badge of the only threshold
\* reached, and reported nothing
C18_Witness ==
    /\ PremioHecho
    /\ ultimo.resultado.total_xp >= 100
    /\ ultimo.resultado.new_badges = <<>>
    /\ "Explorador Urbano" \in ultimo.antes.badges[ultimo.resultado.user_id]
    /\ badges[ultimo.resultado.user_id] = ultimo.antes.badges[ultimo.resultado.user_id]

\* the handling of the last message failed: undecodable, without the user
\* id it needs, or an exception in the handler
FalloAlProcesar ==
    ultimo.resultado.clase \in {"JSONDecodeError", "error", "excepcion"}

\* C20: a message is acknowledged only when it was processed successfully,
\* and a message whose processing failed is rejected, not acknowledged.
C20_AckSoloTrasExito ==
    ultimo # NULL =>
        /\ ultimo.disposicion = "ack" => ~FalloAlProcesar
        /\ FalloAlProcesar => ultimo.disposicion = "reject"

\* ------------------------------------------------------------ leaderboard
\* the answer r, read from sorted set zset, is ordered by XP descending, its
\* ranks are 1, 2, ..., k, and each entry is a member of zset with its score
Clasificacion(r, zset) ==
    LET lb == r.leaderboard IN
    /\ \A i \in DOMAIN lb :
         /\ lb[i].rank = i
         /\ lb[i].user_id \in DOMAIN zset
         /\ lb[i].xp = zset[lb[i].user_id]
    /\ \A i, j \in DOMAIN lb :
         i < j => lb[i].xp >= lb[j].xp /\ lb[i].user_id # lb[j].user_id

EnConnect ==
    BagCardinality([c \in {d \in BagToSet(pub) : d.pc = "connect"} |-> pub[c]])
        + (IF reconnect_task # NULL /\ reconnect_task.pc = "connect" THEN 1 ELSE 0)

\* C21: at no moment are two connection attempts (_connect) in progress,
\* whether they come from publish_event, get_producer or the reconnection loop.
C21_UnSoloConnect == EnConnect <= 1

EnBucle == reconnect_task # NULL /\ reconnect_task.pc \in {"sleep", "connect"}

TareaViva == reconnect_task # NULL /\ reconnect_task.pc # "done"

BucleTerminadoConectado ==
    reconnect_task # NULL /\ reconnect_task.pc = "done" /\ is_connected

\* C23: the loop has no retry limit: if from some moment on the broker stays
\* reachable, a reconnection loop that is alive ends, and it ends with the
\* publisher connected (it does not end while the publisher is disconnected).
C23_ReconectaSinLimite ==
    (<>[]broker) => (TareaViva ~> BucleTerminadoConectado)

\* the loop has ended with the publisher connected and no publish_event call
\* was ever made: the loop itself reconnected
C23_Witness ==
    /\ BucleTerminadoConectado
    /\ connection = "abierta"
    /\ mensajes = 0
    /\ pub = EmptyBag

\* C24: a publish_event call that is over has returned True or False, never
\* raised; it returned False when its connection attempt or its publish
\* failed, and True only with its message in the exchange; a call reaches the
\* publish only over a connection that it, or a call before it, established.
C24_PublishNuncaLanza ==
    /\ \A n \in 1..MaxMensajes :
         retornos[n] # NULL =>
            /\ retornos[n].valor \in {"True", "False"}
            /\ retornos[n].fallo \in {"connect", "publish"} => retornos[n].valor = "False"
            /\ retornos[n].valor = "True" => BagIn(Mensaje(n), exchange)
    /\ \A c \in BagToSet(pub) : c.pc = "publish" => connection # "None"

\* a call made while disconnected returned False because it could not
\* connect, and the next call connected and published
C24_Witness ==
    /\ MaxMensajes >= 2
    /\ retornos[1] # NULL /\ retornos[1].fallo = "connect"
    /\ ~BagIn(Mensaje(1), exchange)
    /\ retornos[2] # NULL /\ retornos[2].valor = "True"
    /\ BagIn(Mensaje(2), exchange)

\* ------------------------------------------------------ incident creation
\* C25: when the call to the oracle fails (timeout, HTTP error, transport
\* error, unusable answer) the request still answers 201 and the incident is
\* stored with severity 'media'; it was created 'pendiente' with count 0.
C25_OraculoNoImpide ==
    (ultima_creacion # NULL /\ ultima_creacion.respuesta \in OraculoFallos) =>
        LET creado == ultima_creacion.cuerpo.incidente IN
        /\ ultima_creacion.cuerpo.status = 201
        /\ creado.severidad = "media"
        /\ creado.estado = "pendiente"
        /\ creado.validaciones_count = 0
        /\ creado.id \in Ids
        /\ incidentes_trafico[creado.id].severidad = "media"
        /\ incidentes_trafico[creado.id].usuario_id = creado.usuario_id

\* the oracle timed out and the incident is in the store as it was created
C25_Witness ==
    /\ ultima_creacion # NULL
    /\ ultima_creacion.respuesta = "TimeoutException"
    /\ ultima_creacion.cuerpo.incidente.id \in Ids
    /\ incidentes_trafico[ultima_creacion.cuerpo.incidente.id]
           = [ultima_creacion.cuerpo.incidente EXCEPT !.severidad = "media",
                                                     !.estado = "pendiente",
                                                     !.validaciones_count = 0]

\* ------------------------------------------ the answers of validar_reporte
\* C26: the preconditions are tested in the order not-found, self-validation,
\* duplicate, already-verified.  A call that arrives is answered 404 exactly
\* when the incident is missing and with the self-validation error exactly
\* when the incident exists and the caller owns it, whatever its state; at
\* its second statement a call whose user has a ValidationRecord gets the
\* duplicate error, also on a verified incident, and only without one does a
\* verified incident give the short-circuit 200.
C26_OrdenDePrecondiciones ==
    [][/\ llamadas' # llamadas =>
            IF req' = req
            THEN LET r == ultima_respuesta' IN
                 \/ r.cuerpo = HTTP_404 /\ r.reporte_id \notin Ids
                 \/ /\ r.cuerpo = HTTP_400_PROPIO
                    /\ r.reporte_id \in Ids
                    /\ incidentes_trafico[r.reporte_id].usuario_id = r.usuario_id
            ELSE \E c \in BagToSet(req') :
                    /\ CopiesIn(c, req') > CopiesIn(c, req)
                    /\ c.pc = "comprobar"
                    /\ c.reporte_id \in Ids
                    /\ incidentes_trafico[c.reporte_id].usuario_id # c.usuario_id
       /\ \A c \in BagToSet(req) :
            (c.pc = "comprobar" /\ CopiesIn(c, req') < CopiesIn(c, req)) =>
               LET r == ultima_respuesta'
                   hay == BagIn(ValidacionIncidente(c.reporte_id, c.usuario_id),
                                validaciones_incidentes)
               IN
               IF hay
               THEN req' = Sale(c) /\ r = Respuesta(c, HTTP_400_DUPLICADO)
               ELSE IF c.incidente.estado = VERIFICADO
               THEN /\ req' = Sale(c)
                    /\ r.reporte_id = c.reporte_id /\ r.usuario_id = c.usuario_id
                    /\ r.cuerpo.status = 200
               ELSE /\ BagCardinality(req') = BagCardinality(req)
                    /\ UNCHANGED ultima_respuesta]_vars

\* a user who had validated was answered with the duplicate error on an
\* incident that is verified
C26_Witness ==
    /\ ultima_respuesta # NULL
    /\ ultima_respuesta.cuerpo = HTTP_400_DUPLICADO
    /\ ultima_respuesta.reporte_id \in Ids
    /\ incidentes_trafico[ultima_respuesta.reporte_id].estado = VERIFICADO
    /\ BagIn(ValidacionIncidente(ultima_respuesta.reporte_id,
                                 ultima_respuesta.usuario_id),
             validaciones_incidentes)
    /\ req = EmptyBag

\* C27: a call that is rejected as not found, self-validation or duplicate
\* has done nothing but read: the step that rejects it changes neither table,
\* no counter, no state and not the exchange, and the call was rejected at
\* its arrival or at its duplicate query, before any insert, increment or
\* publication of its own.
C27_RechazoSinEfecto ==
    [][/\ (llamadas' # llamadas /\ req' = req) =>
            /\ ultima_respuesta'.cuerpo \in {HTTP_404, HTTP_400_PROPIO}
            /\ UNCHANGED <<incidentes_trafico, validaciones_incidentes, exchange,
                           is_connected>>
       /\ \A c \in BagToSet(req) :
            (/\ CopiesIn(c, req') < CopiesIn(c, req)
             /\ BagCardinality(req') < BagCardinality(req)
             /\ ultima_respuesta'.cuerpo.status \in {400, 404}) =>
               /\ c.pc = "comprobar"
               /\ ultima_respuesta' = Respuesta(c, HTTP_400_DUPLICADO)
               /\ UNCHANGED <<incidentes_trafico, validaciones_incidentes, exchange,
                              is_connected>>]_vars

\* a duplicate validation was rejected on an incident with one validation:
\* one row, count 1, still pending, nothing published for it
C27_Witness ==
    /\ ultima_respuesta # NULL
    /\ ultima_respuesta.cuerpo = HTTP_400_DUPLICADO
    /\ req = EmptyBag
    /\ LET i == ultima_respuesta.reporte_id IN
       /\ Validaciones(i) = 1
       /\ incidentes_trafico[i].validaciones_count = 1
       /\ incidentes_trafico[i].estado = PENDIENTE
       /\ EventosVerificado(i) = 0

\* call c leaves validar_reporte in this step with a 200
Responde200(c) ==
    /\ CopiesIn(c, req') < CopiesIn(c, req)
    /\ BagCardinality(req') < BagCardinality(req)
    /\ ultima_respuesta'.cuerpo.status = 200

SinPremio(cuerpo) ==
    /\ cuerpo.forma = "objeto"
    /\ "type" \in DOMAIN cuerpo.campos => cuerpo.campos.type # "reporte_validado"

\* C29: once a 'reporte_creado' event or an event of another type than the
\* rewarded one has been handled, the XP, the coins, the badges and the
\* leaderboard of every user are what they were before it, and the message
\* was acknowledged.
C29_SinRecompensa ==
    (consumo = NULL /\ ultimo # NULL /\ SinPremio(ultimo.cuerpo)) =>
        /\ Almacen = ultimo.antes
        /\ ultimo.disposicion = "ack"
        /\ ultimo.resultado.clase \in {"creado", "ignorado"}

\* two events were handled, the last one of an unknown type, and the user who
\* came with 90 XP and 45 coins still has them
C29_Witness ==
    /\ consumo = NULL /\ ultimo # NULL
    /\ ultimo.cuerpo = CuerpoOtroTipo
    /\ ultimo.resultado.clase = "ignorado"
    /\ ultimo.disposicion = "ack"
    /\ publicados = 2
    /\ xp[1] = 90 /\ coins[1] = 45
    /\ Almacen = ultimo.antes
    /\ inicio[1].xp = 90

\* ----------------------------------------------------------- the profile
\* C30: the level of a profile is the integer L >= 1 with
\* 100*(L-1)^2 <= xp < 100*L^2 for the XP the profile shows, which is the XP
\* stored at the read (the level is computed from it, not kept); it is 1 for
\* a user without XP; and a later read of the same user with at least as
\* much XP shows at least the same level.
C30_NivelDerivado ==
    [][ultimo_perfil' # ultimo_perfil =>
         LET p == ultimo_perfil' IN
         /\ p.xp = xp[p.user_id]
         /\ UNCHANGED <<xp, coins, badges, leaderboard>>
         /\ p.level >= 1
         /\ 100 * (p.level - 1) * (p.level - 1) <= p.xp
         /\ p.xp < 100 * p.level * p.level
         /\ p.xp = 0 => p.level = 1
         /\ (/\ ultimo_perfil # NULL
             /\ ultimo_perfil.user_id = p.user_id
             /\ p.xp >= ultimo_perfil.xp) => p.level >= ultimo_perfil.level]_vars

\* a user who came with 890 XP (level 3) is read at level 4 after a reward
C30_Witness ==
    /\ ultimo_perfil # NULL
    /\ ultimo_perfil.user_id = 1
    /\ inicio[1].xp = 890
    /\ ultimo_perfil.xp = 900
    /\ ultimo_perfil.level = 4
    /\ xp[1] = 900

\* a call in flight that has published the event of incident i and whose
\* commit is still to come
CommitPendiente(i) ==
    \E c \in BagToSet(req) :
        /\ c.reporte_id = i
        /\ c.pc = "commit"
        /\ c.verificado
        /\ c.publicado = "si"

\* C31: a reporte_verificado event the exchange accepted belongs to an
\* incident that is stored as 'verificado' with count 3, or that a call in
\* flight is still to commit as such.
C31_EventoSoloTrasCommit ==
    \A i \in Ids :
        EventosVerificado(i) > 0 =>
            \/ /\ incidentes_trafico[i].estado = VERIFICADO
               /\ incidentes_trafico[i].validaciones_count = UMBRAL_VERIFICACION
            \/ CommitPendiente(i)

\* call c passed the duplicate query and the row of its user has been
\* committed by another call since: c is the call that loses
Perdedora(c) ==
    /\ c.pc \in {"publicar", "commit"}
    /\ validacion_existente(c.reporte_id, c.usuario_id)

\* C32: of two concurrent validations of one user for one incident, one row
\* is recorded, the call that loses publishes no event, and it is answered
\* with the duplicate-validation error 400, not with a server error.
C32_DuplicadoConcurrente ==
    /\ \A f \in BagToSet(validaciones_incidentes) :
           CopiesIn(f, validaciones_incidentes) = 1
    /\ \A c \in BagToSet(req) : Perdedora(c) => c.pc = "commit" /\ c.publicado = "no"
    /\ ultima_respuesta # NULL /\ ultima_respuesta.cuerpo.status >= 400
           => ultima_respuesta.cuerpo \in {HTTP_404, HTTP_400_PROPIO, HTTP_400_DUPLICADO}

\* handler h is inside add_xp for user u: past its INCRBY, before its ZADD
EnAddXp(h, u) == h # NULL /\ h.pc = "zadd" /\ h.user_id = u

\* the step ends the add_xp of the handler that goes from `antes` to
\* `despues`
AddXpTermina(antes, despues) ==
    /\ antes # NULL /\ antes.pc = "zadd"
    /\ despues # NULL /\ despues.pc = "add_coins"

\* C33: when an add_xp call for a user ends and no other add_xp call for that
\* user is in progress, the user's score in the leaderboard is the user's XP
\* counter, however the calls were interleaved.
C33_LeaderboardAlDia ==
    [][/\ (AddXpTermina(consumo, consumo') /\ ~EnAddXp(replica, consumo.user_id))
           => leaderboard'[consumo.user_id] = xp'[consumo.user_id]
       /\ (AddXpTermina(replica, replica') /\ ~EnAddXp(consumo, replica.user_id))
           => leaderboard'[replica.user_id] = xp'[replica.user_id]]_vars

\* C34: once close() of the publisher is over, the publisher is disconnected
\* and stays so, and no reconnection loop is alive.
C34_CerradoParaSiempre ==
    cierre = "cerrado" =>
        /\ ~is_connected
        /\ connection # "abierta"
        /\ ~TareaViva

\* C35: the stored validaciones_count of every incident is between 0 and 3,
\* and the incident is 'verificado' exactly when the count is 3.
C35_ContadorYEstado ==
    \A i \in Ids :
        /\ incidentes_trafico[i].validaciones_count \in 0..UMBRAL_VERIFICACION
        /\ incidentes_trafico[i].estado = VERIFICADO
               <=> incidentes_trafico[i].validaciones_count = UMBRAL_VERIFICACION

\* C36: a user holds a badge only with an XP total at or above its
\* threshold, and when the handling of a reward event is over (none is in
\* mid-processing) the user's badges are exactly the ones whose threshold is
\* at most the user's XP (given that they were so when the handling began).
C36_InsigniasExactas ==
    [][/\ \A u \in Jugadores : badges'[u] \subseteq Alcanzadas(xp'[u])
       /\ (/\ consumo # NULL /\ consumo' = NULL
           /\ consumo.antes.badges[consumo.user_id]
                  = Alcanzadas(consumo.antes.xp[consumo.user_id])) =>
              badges'[consumo.user_id] = Alcanzadas(xp'[consumo.user_id])]_vars

\* a decodable 'reporte_validado' event without data.usuario_id
SinDestinatario(cuerpo) ==
    /\ cuerpo.forma = "objeto"
    /\ Despacho(cuerpo.campos) = "reporte_validado"
    /\ ~TieneUsuario(cuerpo.campos)

\* C37: the handling of a reward event without a recipient changes no XP,
\* coins, badges or leaderboard score, starts no store command, takes the
\* message off the queue and settles it without requeue.
C37_SinDestinatarioSinEfecto ==
    [][(ultimo' # ultimo /\ SinDestinatario(ultimo'.cuerpo)) =>
         /\ <<xp', coins', badges', leaderboard'>> = <<xp, coins, badges, leaderboard>>
         /\ ultimo'.antes = Almacen
         /\ consumo' = consumo
         /\ cola # <<>> /\ Head(cola) = ultimo'.cuerpo /\ cola' = Tail(cola)
         /\ ultimo'.resultado = [clase |-> "error", error |-> "usuario_id faltante"]
         /\ ultimo'.disposicion \in {"ack", "reject"}]_vars

\* a reward event without recipient was dropped while user 1 keeps the 90 XP
\* and 45 coins of before, and nothing waits in the queue
C37_Witness ==
    /\ consumo = NULL /\ ultimo # NULL
    /\ ultimo.cuerpo = CuerpoSinUsuario
    /\ ultimo.resultado.clase = "error"
    /\ Almacen = ultimo.antes
    /\ xp[1] = 90 /\ coins[1] = 45 /\ leaderboard[1] = 90
    /\ cola = <<>>

\* C38: every 'reporte_creado' event the exchange accepted names an incident
\* that is stored, with its reporter, type and severity; and once the
\* publication was tried, delivered or not, the request has answered 201 with
\* the incident, which is stored.
C38_CreadoTrasCommit ==
    /\ \A m \in BagToSet(exchange) :
           m.event_type = "reporte_creado" =>
               /\ m.incidente_id \in Ids
               /\ incidentes_trafico[m.incidente_id].usuario_id = m.user_id
               /\ incidentes_trafico[m.incidente_id].tipo = m.tipo_incidente
               /\ incidentes_trafico[m.incidente_id].severidad = m.severidad
    /\ alta # NULL =>
           /\ alta.incidente.id \in Ids
           /\ incidentes_trafico[alta.incidente.id].usuario_id = alta.incidente.usuario_id
    /\ (ultima_creacion # NULL /\ "entregado" \in DOMAIN ultima_creacion) =>
           /\ ultima_creacion.cuerpo.status = 201
           /\ ultima_creacion.cuerpo.incidente.id \in Ids
           /\ [incidentes_trafico[ultima_creacion.cuerpo.incidente.id]
                 EXCEPT !.validaciones_count = 0, !.estado = PENDIENTE]
                  = ultima_creacion.cuerpo.incidente

\* the publication of 'reporte_creado' failed: no event, the incident is
\* stored, the request answered 201, and the incident has been validated since
C38_Witness ==
    /\ ultima_creacion # NULL
    /\ "entregado" \in DOMAIN ultima_creacion
    /\ ~ultima_creacion.entregado
    /\ ultima_creacion.cuerpo.status = 201
    /\ exchange = EmptyBag
    /\ incidentes_trafico[ultima_creacion.cuerpo.incidente.id].validaciones_count = 1

\* ------------------------------------------------------- no retry queue
\* the n-th publish_event call has returned False
RetornoFalse(n) == retornos[n] # NULL /\ retornos[n].valor = "False"

\* C39: the publisher keeps no retry queue: a publish_event call that has
\* returned False keeps that result, no work for its event remains in the
\* publisher and its event does not reach the exchange in any later step; the
\* step in which a publish fails changes nothing but the connected flag, which
\* it clears, and a publish_event call made while the publisher is marked
\* disconnected goes through a connection attempt before it publishes.
C39_SinColaDeReintentos ==
    [][/\ \A n \in 1..MaxMensajes :
              RetornoFalse(n) =>
                  /\ retornos'[n] = retornos[n]
                  /\ ~BagIn(Mensaje(n), exchange')
                  /\ \A c \in BagToSet(pub') : c.msg # n
       /\ \A n \in 1..MaxMensajes :
              (retornos[n] = NULL /\ retornos'[n] # NULL
                   /\ retornos'[n].fallo = "publish") =>
                  /\ ~is_connected'
                  /\ exchange' = exchange
                  /\ connection' = connection
                  /\ reconnect_task' = reconnect_task
                  /\ lock' = lock
       /\ (mensajes' = mensajes + 1 /\ ~is_connected) =>
              \A c \in BagToSet(pub') :
                  c.msg = mensajes' => c.pc \in {"lock", "connect"}]_vars

\* the first call returned False because its publish failed, its event is not
\* in the exchange, and the second call, made while the publisher was marked
\* disconnected, connected again and delivered its own event
C39_Witness ==
    /\ MaxMensajes >= 2
    /\ RetornoFalse(1) /\ retornos[1].fallo = "publish"
    /\ ~BagIn(Mensaje(1), exchange)
    /\ retornos[2] # NULL /\ retornos[2].valor = "True"
    /\ BagIn(Mensaje(2), exchange)
    /\ reconnect_task = NULL

\* ------------------------------------------------- one reconnection loop
\* the task self._reconnect_task holds is alive: 1, otherwise 0
TareaReferida == IF reconnect_task # NULL /\ reconnect_task.pc # "done" THEN 1 ELSE 0

\* C40: at most one reconnection loop of the publisher is alive at any time,
\* and it is the one self._reconnect_task holds; a loop is started only by a
\* close of the connection, and only when the publisher holds no task or a
\* task that has finished; a close that finds a living loop leaves it as it is.
C40_UnSoloBucle ==
    [][/\ bucles \in 0..1 /\ bucles' \in 0..1
       /\ bucles = TareaReferida
       /\ bucles' > bucles =>
              /\ connection = "abierta" /\ connection' = "cerrada"
              /\ reconnect_task = NULL \/ reconnect_task.pc = "done"
              /\ reconnect_task'.pc = "creada"
       /\ (connection = "abierta" /\ connection' = "cerrada" /\ bucles = 1) =>
              /\ reconnect_task' = reconnect_task
              /\ bucles' = 1]_vars

\* the loop a close callback started is alive, asleep after a failed
\* attempt, and a call has connected the publisher again meanwhile: the
\* next close of the connection finds a living loop
C40_Witness ==
    /\ bucles = 1
    /\ reconnect_task.pc = "sleep" /\ reconnect_task.delay >= 2 * DELAY_INICIAL
    /\ connection = "abierta"
    /\ is_connected

====
